---- MODULE Spec2Model ----
(***************************************************************************)
(* GTA text editing tool: the string-table codecs (III / SA / IV / GXT2),  *)
(* the WHM translation database, the editable ledger and the WHM string    *)
(* walker, modelled at the level of bytes.                                 *)
(*                                                                         *)
(* Conventions                                                             *)
(*   - a byte string is a sequence over 0..255, a Python str a sequence of *)
(*     code points, a name a sequence of ASCII codes;                      *)
(*   - a 32-bit unsigned value is a pair <<hi, lo>> of 16-bit halves, so   *)
(*     that the full range 0 .. 2^32-1 is kept;                            *)
(*   - a Python dict is the sequence of its <<key, value>> pairs in        *)
(*     insertion order, with distinct keys;                                *)
(*   - offsets into byte strings are 0-based, as in the source.            *)
(***************************************************************************)
EXTENDS Integers, Sequences, FiniteSets, TLC

VARIABLES
    pc,         \* position of the run: which handler has completed
    m_GxtData,  \* the document held by the writer (SAGXT / LCGXT / m_Data / strings)
    file,       \* the bytes of the file on disk
    version,    \* GXTEditorApp.version, as set by the open_* handlers
    data,       \* GXTEditorApp.data: table name -> {key -> text}
    err,        \* TRUE when a handler reported a failure
    ledger,     \* the lines of the editable text ledger LoadText is given
    result,     \* the entries LoadText returned, the texts of GenerateDataBase
    results,    \* the (hash, text) pairs ParseWhmTable decoded
    block,      \* the arena UnpackWhm returned
    page,       \* the node tree the arena was laid out from
    container,  \* the entries extracted so far
    hashes,     \* the hashes seen so far
    ptr,        \* the candidate string TryAppendString is given
    calls,      \* the candidates given to TryAppendString since hashes was created
    exported,   \* the entries ExportText has written in this run
    content,    \* the key=value lines a text loader has read so far
    all_errors, \* the lines a text loader reported to the operator
    hash_tracker, \* _load_standard_txt: hash key -> the plaintext keys that gave it
    pgptr,      \* the pgPtr or pgObjectArray dereferenced: value, count, size
    located,    \* what the dereference returned
    inflated,   \* what zlib.decompress returned: <<bytes>>, or <<>> for zlib.error
    stderr,     \* the diagnostics printed so far
    folder,     \* the .whm files rglob found, in order: each the name of its contents
    futures,    \* WhmBatchWorker.run: the state of each submitted _process_single_whm
    cursor,     \* the files the loop of the batch has completed
    log_queue,  \* WhmBatchWorker.log_queue
    stdout,     \* the lines printed so far
    signals,    \* the Qt signals emitted so far
    exported_count, \* WhmBatchWorker.exported_count
    text_key,   \* the key string a hash function is given
    digest,     \* what the hash function returned, or that it raised
    stack,      \* ExtractNodeStrings: the frames of the calls in progress, innermost last
    txt_files,  \* the .txt files of the folder, each with who wrote it: 0 for a file that was there before the batch
    output_txt_path,\* _process_single_whm: the output path of each task
    counter,    \* _process_single_whm: the counter of each task
    max_workers,\* the number of threads of the ThreadPoolExecutor
    worker_thread,\* WhmBatchToolDialog.worker_thread: <<>> for None, else the worker among workers
    workers,    \* the WhmBatchWorker threads created so far: mode, where run is, signals emitted
    sys_streams,\* sys.stdout and sys.stderr
    ui_enabled, \* whether the tabs and the two run buttons are enabled
    posted,     \* the finished_with_details signals queued for the thread of the dialog
    visible,    \* whether the dialog is open
    close_event \* what closeEvent did with the last QCloseEvent

\* the variables of the GXT editor and those of the WHM text exporter
gxt == <<m_GxtData, version>>
walker == <<block, page, container, hashes, ptr>>
batch == <<calls, exported>>
whm == <<ledger, result, results, walker, batch>>
importer == <<content, all_errors, hash_tracker>>
deref == <<pgptr, located>>
rsc == <<inflated, stderr>>
job == <<folder, futures, cursor, log_queue, stdout, signals, exported_count>>
hashing == <<text_key, digest>>
frames == <<stack>>
outputs == <<txt_files, output_txt_path, counter, max_workers>>
dialog == <<worker_thread, workers, sys_streams, ui_enabled, posted, visible, close_event>>

vars == <<pc, file, data, err, gxt, whm, importer, deref, rsc, job, hashing, frames, outputs, dialog>>

\* the WHM text exporter before anything was loaded
IdleWalker ==
    block = <<>> /\ page = <<>> /\ container = <<>> /\ hashes = {} /\ ptr = <<>>
IdleBatch == calls = <<>> /\ exported = <<>>
IdleWhm == ledger = <<>> /\ result = <<>> /\ results = <<>> /\ IdleWalker /\ IdleBatch

\* no text file was imported
IdleImporter == content = <<>> /\ all_errors = <<>> /\ hash_tracker = <<>>
IdleDeref == pgptr = <<>> /\ located = <<>>
IdleRsc == inflated = <<>> /\ stderr = <<>>

\* no batch was started
IdleJob ==
    /\ folder = <<>> /\ futures = <<>> /\ cursor = 0
    /\ log_queue = <<>> /\ stdout = <<>> /\ signals = <<>> /\ exported_count = 0
IdleHashing == text_key = <<>> /\ digest = <<>>
IdleFrames == stack = <<>>
IdleOutputs == txt_files = {} /\ output_txt_path = <<>> /\ counter = <<>> /\ max_workers = 0
IdleDialog ==
    /\ worker_thread = <<>> /\ workers = <<>> /\ posted = <<>>
    /\ sys_streams = <<"original", "original">>
    /\ ui_enabled = TRUE /\ visible = FALSE /\ close_event = "none"

\* the GXT editor with no document
IdleGxt == m_GxtData = <<>> /\ version = "None"

(***************************************************************************)
(* Bounds of the model                                                     *)
(***************************************************************************)
MaxTables == 2
MaxEntries == 2

(***************************************************************************)
(* Bytes, integers, struct.pack / struct.unpack                            *)
(***************************************************************************)
Min(a, b) == IF a <= b THEN a ELSE b

\* Python slice bs[a:b] for 0 <= a
Slice(bs, a, b) == SubSeq(bs, a + 1, Min(b, Len(bs)))

\* n zero bytes
Zeros(n) == [i \in 1..n |-> 0]

\* a small integer as a 32-bit value
U32(n) == <<n \div 65536, n % 65536>>
Fits(w) == w[1] < 32768
ToInt(w) == w[1] * 65536 + w[2]
Lt32(a, b) == a[1] < b[1] \/ (a[1] = b[1] /\ a[2] < b[2])

\* struct.pack('<H', n), struct.pack('<I', w), struct.unpack('<I', bs[p:p+4])
U16LE(n) == <<n % 256, n \div 256>>
U32LE(w) == <<w[2] % 256, w[2] \div 256, w[1] % 256, w[1] \div 256>>
PackI(n) == U32LE(U32(n))
UnpackI(bs, p) == <<bs[p + 4] * 256 + bs[p + 3], bs[p + 2] * 256 + bs[p + 1]>>
UnpackH(bs, p) == bs[p + 2] * 256 + bs[p + 1]

\* bytes.find(tag): the first 0-based index of tag in bs, -1 when absent
Find(bs, tag) ==
    LET hits == {i \in 0..(Len(bs) - Len(tag)) : SubSeq(bs, i + 1, i + Len(tag)) = tag}
    IN IF hits = {} THEN -1 ELSE CHOOSE i \in hits : \A j \in hits : i <= j

\* f.seek(p); f.write(bs) on a file opened 'wb': a gap left by the seek reads as zeros
WriteAt(f, p, bs) ==
    IF bs = <<>> THEN f
    ELSE (IF p <= Len(f) THEN SubSeq(f, 1, p) ELSE f \o Zeros(p - Len(f)))
         \o bs \o SubSeq(f, p + Len(bs) + 1, Len(f))

\* b.split(b'\x00')[0]
SplitNul(bs) ==
    LET z == {i \in 1..Len(bs) : bs[i] = 0}
    IN IF z = {} THEN bs ELSE SubSeq(bs, 1, (CHOOSE i \in z : \A j \in z : i <= j) - 1)

\* name.ljust(8, b'\x00')
Ljust8(bs) == bs \o Zeros(8 - Len(bs))

\* str.upper() on ASCII codes
UpperChar(c) == IF c >= 97 /\ c <= 122 THEN c - 32 ELSE c
Upper(s) == [i \in 1..Len(s) |-> UpperChar(s[i])]

\* lexicographic order of two sequences of numbers (Python str / tuple comparison)
RECURSIVE SeqLt(_, _)
SeqLt(a, b) ==
    IF b = <<>> THEN FALSE
    ELSE IF a = <<>> THEN TRUE
    ELSE IF a[1] # b[1] THEN a[1] < b[1]
    ELSE SeqLt(Tail(a), Tail(b))

\* f"{w:08X}"
HexDigit(n) == IF n < 10 THEN 48 + n ELSE 55 + n
Hex4(h) == <<HexDigit(h \div 4096), HexDigit((h \div 256) % 16),
             HexDigit((h \div 16) % 16), HexDigit(h % 16)>>
Hex8(w) == Hex4(w[1]) \o Hex4(w[2])

(***************************************************************************)
(* Text encodings                                                          *)
(***************************************************************************)
\* one code point as UTF-8
Utf8Char(c) ==
    IF c < 128 THEN <<c>>
    ELSE IF c < 2048 THEN <<192 + c \div 64, 128 + (c % 64)>>
    ELSE IF c < 65536 THEN <<224 + c \div 4096, 128 + ((c \div 64) % 64), 128 + (c % 64)>>
    ELSE <<240 + c \div 262144, 128 + ((c \div 4096) % 64),
           128 + ((c \div 64) % 64), 128 + (c % 64)>>

\* str.encode('utf-8')
RECURSIVE Utf8Encode(_)
Utf8Encode(s) == IF s = <<>> THEN <<>> ELSE Utf8Char(s[1]) \o Utf8Encode(Tail(s))

IsCont(bs, i) == i <= Len(bs) /\ bs[i] >= 128 /\ bs[i] <= 191

\* bytes.decode('utf-8', errors='strict') from index i: [ok, s]
RECURSIVE Utf8DecodeFrom(_, _, _)
Utf8DecodeFrom(bs, i, acc) ==
    IF i > Len(bs) THEN [ok |-> TRUE, s |-> acc]
    ELSE LET b == bs[i] IN
        IF b < 128 THEN Utf8DecodeFrom(bs, i + 1, Append(acc, b))
        ELSE IF b >= 194 /\ b <= 223 /\ IsCont(bs, i + 1)
            THEN Utf8DecodeFrom(bs, i + 2, Append(acc, (b - 192) * 64 + (bs[i + 1] - 128)))
        ELSE IF b >= 224 /\ b <= 239 /\ IsCont(bs, i + 1) /\ IsCont(bs, i + 2)
            THEN LET c == (b - 224) * 4096 + (bs[i + 1] - 128) * 64 + (bs[i + 2] - 128)
                 IN IF c < 2048 \/ (c >= 55296 /\ c <= 57343)
                    THEN [ok |-> FALSE, s |-> <<>>]
                    ELSE Utf8DecodeFrom(bs, i + 3, Append(acc, c))
        ELSE IF b >= 240 /\ b <= 244 /\ IsCont(bs, i + 1) /\ IsCont(bs, i + 2) /\ IsCont(bs, i + 3)
            THEN LET c == (b - 240) * 262144 + (bs[i + 1] - 128) * 4096
                          + (bs[i + 2] - 128) * 64 + (bs[i + 3] - 128)
                 IN IF c < 65536 \/ c > 1114111
                    THEN [ok |-> FALSE, s |-> <<>>]
                    ELSE Utf8DecodeFrom(bs, i + 4, Append(acc, c))
        ELSE [ok |-> FALSE, s |-> <<>>]

Utf8Decode(bs) == Utf8DecodeFrom(bs, 1, <<>>)

\* str.encode('utf-16-le') as 16-bit units
Utf16Char(c) ==
    IF c < 65536 THEN <<c>>
    ELSE <<55296 + (c - 65536) \div 1024, 56320 + ((c - 65536) % 1024)>>
RECURSIVE Utf16Units(_)
Utf16Units(s) == IF s = <<>> THEN <<>> ELSE Utf16Char(s[1]) \o Utf16Units(Tail(s))

IsHigh(u) == u >= 55296 /\ u <= 56319
IsLow(u) == u >= 56320 /\ u <= 57343

\* units.decode('utf-16-le'): [ok, s]; with ignore = TRUE a lone surrogate is dropped
RECURSIVE Utf16DecodeFrom(_, _, _, _)
Utf16DecodeFrom(us, i, acc, ignore) ==
    IF i > Len(us) THEN [ok |-> TRUE, s |-> acc]
    ELSE IF IsHigh(us[i]) /\ i < Len(us) /\ IsLow(us[i + 1])
        THEN Utf16DecodeFrom(us, i + 2,
                 Append(acc, 65536 + (us[i] - 55296) * 1024 + (us[i + 1] - 56320)), ignore)
    ELSE IF IsHigh(us[i]) \/ IsLow(us[i])
        THEN IF ignore THEN Utf16DecodeFrom(us, i + 1, acc, ignore)
             ELSE [ok |-> FALSE, s |-> <<>>]
    ELSE Utf16DecodeFrom(us, i + 1, Append(acc, us[i]), ignore)

\* the 16-bit units of a byte string of even length, and back
UnitsOf(bs) == [i \in 1..(Len(bs) \div 2) |-> bs[2 * i - 1] + 256 * bs[2 * i]]
RECURSIVE BytesOf(_)
BytesOf(us) == IF us = <<>> THEN <<>> ELSE U16LE(us[1]) \o BytesOf(Tail(us))

(***************************************************************************)
(* Tags and names                                                          *)
(***************************************************************************)
TagTABL == <<84, 65, 66, 76>>
TagTKEY == <<84, 75, 69, 89>>
TagTDAT == <<84, 68, 65, 84>>
NameMAIN == <<77, 65, 73, 78>>

\* dict[k] = v on a dict kept as a sequence of <<key, value>> pairs
DictHas(d, k) == \E i \in 1..Len(d) : d[i][1] = k
DictSet(d, k, v) ==
    IF DictHas(d, k)
    THEN [i \in 1..Len(d) |-> IF d[i][1] = k THEN <<k, v>> ELSE d[i]]
    ELSE Append(d, <<k, v>>)
DictGet(d, k) == d[CHOOSE i \in 1..Len(d) : d[i][1] = k][2]

\* dict(pairs)
\* the items and the keys of a dict
PairSet(d) == {d[i] : i \in 1..Len(d)}
Keys(d) == {d[i][1] : i \in 1..Len(d)}

RECURSIVE DictOf(_)
DictOf(pairs) ==
    IF pairs = <<>> THEN <<>>
    ELSE LET n == Len(pairs) IN DictSet(DictOf(SubSeq(pairs, 1, n - 1)), pairs[n][1], pairs[n][2])

(***************************************************************************)
(* gxt_parser: block search, version detection, table directory            *)
(***************************************************************************)
window == 4096

Raise == [ok |-> FALSE]

\* findBlock(stream, block) with the stream at pos: [ok, size, pos], pos after the header
RECURSIVE findBlock(_, _, _)
findBlock(bs, pos, tag) ==
    LET peek == Slice(bs, pos, pos + window)
        idx == Find(peek, tag)
    IN IF peek = <<>> THEN Raise
       ELSE IF idx # -1
       THEN LET header == Slice(bs, pos + idx, pos + idx + 8)
            IN IF Len(header) < 8 THEN Raise
               ELSE [ok |-> TRUE, size |-> UnpackI(header, 4), pos |-> pos + idx + 8]
       ELSE IF pos + window >= Len(bs) THEN Raise
       ELSE findBlock(bs, Min(Len(bs), pos + window - 4), tag)

\* getVersion without the test of the character width of an SA header
getVersion_any_width(bs) ==
    LET hdr == Slice(bs, 0, 8)
    IN IF Len(hdr) < 4 THEN "None"
       ELSE LET word1 == UnpackH(hdr, 0)
                word2 == UnpackH(hdr, 2)
            IN IF word1 = 4 /\ word2 = 16 THEN "IV"
               ELSE IF word1 = 4 /\ Slice(hdr, 4, 8) = TagTABL THEN "SA"
               ELSE IF Slice(hdr, 0, 4) = TagTABL THEN "VC"
               ELSE IF Slice(hdr, 0, 4) = TagTKEY THEN "III"
               ELSE "None"

\* getVersion(stream)
getVersion(bs) ==
    LET hdr == Slice(bs, 0, 8)
    IN IF Len(hdr) < 4 THEN "None"
       ELSE LET word1 == UnpackH(hdr, 0)
                word2 == UnpackH(hdr, 2)
            IN IF word1 = 4 /\ word2 = 16 THEN "IV"
               ELSE IF word1 = 4 /\ Slice(hdr, 4, 8) = TagTABL /\ word2 = 8 THEN "SA"
               ELSE IF Slice(hdr, 0, 4) = TagTABL THEN "VC"
               ELSE IF Slice(hdr, 0, 4) = TagTKEY THEN "III"
               ELSE "None"

\* the entries of the TABL block: the loop of _parseTables
RECURSIVE TablEntries(_, _, _, _)
TablEntries(bs, pos, n, acc) ==
    IF n = 0 THEN [ok |-> TRUE, tables |-> acc, pos |-> pos]
    ELSE LET raw == Slice(bs, pos, pos + 12)
         IN IF Len(raw) < 12 THEN Raise
            ELSE TablEntries(bs, pos + 12, n - 1,
                             Append(acc, <<SplitNul(SubSeq(raw, 1, 8)), UnpackI(raw, 8)>>))

\* _parseTables(stream): [ok, tables, pos]
\* a size too large for any file to hold fails on the first short read
parseTables(bs, pos) ==
    LET blk == findBlock(bs, pos, TagTABL)
    IN IF ~blk.ok THEN Raise
       ELSE IF ~Fits(blk.size) THEN Raise
       ELSE TablEntries(bs, blk.pos, ToInt(blk.size) \div 12, <<>>)

\* EndOf with every value running to the end of the block
EndOf_block_end(arr, start) == Len(arr)

\* index of the first zero unit at or after start, else the number of units
\* (np.searchsorted(zero_idx, start, side='left') and the mask that follows)
EndOf(arr, start) ==
    LET z == {i \in start..(Len(arr) - 1) : arr[i + 1] = 0}
    IN IF z = {} THEN Len(arr) ELSE CHOOSE i \in z : \A j \in z : i <= j

\* the start of a value in the block arr: the offset clamped to the block
StartOf(arr, off) == IF Fits(off) THEN Min(ToInt(off), Len(arr)) ELSE Len(arr)

\* stream.read(datSize) after findBlock(stream, 'TDAT') gave d: [ok, tkey, TDat]
ReadTDat(bs, tkey, d) ==
    IF ~d.ok THEN Raise
    ELSE [ok |-> TRUE, tkey |-> tkey,
          TDat |-> Slice(bs, d.pos, IF Fits(d.size) THEN d.pos + ToInt(d.size) ELSE Len(bs))]

\* stream.read(size) after findBlock(stream, 'TKEY') gave k, a short read or a size
\* that is not a multiple of the row size raising, and then the TDAT block
ReadTKey(bs, k, row) ==
    IF ~k.ok THEN Raise
    ELSE IF ~Fits(k.size) \/ k.pos + ToInt(k.size) > Len(bs) THEN Raise
    ELSE IF ToInt(k.size) % row # 0 THEN Raise
    ELSE ReadTDat(bs, Slice(bs, k.pos, k.pos + ToInt(k.size)),
                  findBlock(bs, k.pos + ToInt(k.size), TagTDAT))

\* the two blocks every parseTKeyTDat starts with, the stream at pos
ReadBlocks(bs, pos, row) == ReadTKey(bs, findBlock(bs, pos, TagTKEY), row)

\* the SA value decoder: utf-8, else gbk with errors='replace'; the gbk text of bytes
\* that are not UTF-8 is kept opaque: the marker -1 followed by the raw bytes
SADecodeValue(raw) ==
    IF Utf8Decode(raw).ok THEN Utf8Decode(raw).s ELSE <<-1>> \o raw

\* the entries SA.parseTKeyTDat builds from the blocks b; keys are 8 hex digits
SAEntries(b) ==
    IF ~b.ok THEN Raise
    ELSE [ok |-> TRUE,
          entries |-> [i \in 1..(Len(b.tkey) \div 8) |->
              <<Hex8(UnpackI(b.tkey, 8 * (i - 1) + 4)),
                SADecodeValue(Slice(b.TDat, StartOf(b.TDat, UnpackI(b.tkey, 8 * (i - 1))),
                    EndOf(b.TDat, StartOf(b.TDat, UnpackI(b.tkey, 8 * (i - 1))))))>>]]

\* SA.parseTKeyTDat(stream): [ok, entries]
SA_parseTKeyTDat(bs, pos) == SAEntries(ReadBlocks(bs, pos, 8))

\* _decode_bytes(raw) on the units of a value: utf-16-le when it decodes; the text the
\* fallback chain gives to units that are not UTF-16 is kept opaque (-1, then the units)
decode_bytes(us) ==
    IF Utf16DecodeFrom(us, 1, <<>>, FALSE).ok THEN Utf16DecodeFrom(us, 1, <<>>, FALSE).s
    ELSE <<-1>> \o us

\* the units of the value at byte offset off of the UTF-16 block arr
UnitsAt(arr, off) ==
    Slice(arr, StartOf(arr, <<off[1] \div 2, (off[1] % 2) * 32768 + off[2] \div 2>>),
          EndOf(arr, StartOf(arr, <<off[1] \div 2, (off[1] % 2) * 32768 + off[2] \div 2>>)))

\* the entries III.parseTKeyTDat builds from the blocks b: rows of 12 bytes, the key
\* the 8 bytes after the offset up to a NUL
IIIEntries(b) ==
    IF ~b.ok THEN Raise
    ELSE IF Len(b.TDat) % 2 # 0 THEN Raise
    ELSE [ok |-> TRUE,
          entries |-> [i \in 1..(Len(b.tkey) \div 12) |->
              <<SplitNul(SubSeq(b.tkey, 12 * (i - 1) + 5, 12 * i)),
                decode_bytes(UnitsAt(UnitsOf(b.TDat), UnpackI(b.tkey, 12 * (i - 1))))>>]]

\* III.parseTKeyTDat and VC.parseTKeyTDat (the same code): [ok, entries]
III_parseTKeyTDat(bs, pos) == IIIEntries(ReadBlocks(bs, pos, 12))

\* the entries IV.parseTKeyTDat builds from the blocks b; keys are '0x' and 8 hex
\* digits, values utf-16-le with errors='ignore'
IVEntries(b) ==
    IF ~b.ok THEN Raise
    ELSE IF Len(b.TDat) % 2 # 0 THEN Raise
    ELSE [ok |-> TRUE,
          entries |-> [i \in 1..(Len(b.tkey) \div 8) |->
              <<<<48, 120>> \o Hex8(UnpackI(b.tkey, 8 * (i - 1) + 4)),
                Utf16DecodeFrom(UnitsAt(UnitsOf(b.TDat), UnpackI(b.tkey, 8 * (i - 1))),
                                1, <<>>, TRUE).s>>]]

\* IV.parseTKeyTDat(stream): [ok, entries]
IV_parseTKeyTDat(bs, pos) == IVEntries(ReadBlocks(bs, pos, 8))

\* IV.parseTables(stream): MAIN at 0 when the first 16 bytes hold no TABL
IV_parseTables(bs, pos) ==
    IF Find(Slice(bs, pos, pos + 16), TagTABL) = -1
    THEN [ok |-> TRUE, tables |-> <<<<NameMAIN, U32(0)>>>>, pos |-> pos]
    ELSE parseTables(bs, pos)

(***************************************************************************)
(* SAGXT: the SA writer                                                    *)
(***************************************************************************)
SizeOfTABL == 12
SizeOfTKEY == 8

\* sorted(self.m_GxtData.items(), key=self._table_sort): MAIN first, then by name
TableBefore(a, b) ==
    IF (a = NameMAIN) # (b = NameMAIN) THEN a = NameMAIN ELSE SeqLt(a, b)

SortTables(doc) ==
    LET n == Len(doc)
        rank(k) == Cardinality({j \in 1..n : TableBefore(doc[j][1], doc[k][1])})
    IN [i \in 1..n |-> doc[CHOOSE k \in 1..n : rank(k) = i - 1]]

\* entries kept in insertion order
InsertionOrder(entries) == entries

\* sorted(entries.items()): ascending by hash
SortEntries(entries) ==
    LET n == Len(entries)
        rank(k) == Cardinality({j \in 1..n : Lt32(entries[j][1], entries[k][1])})
    IN [i \in 1..n |-> entries[CHOOSE k \in 1..n : rank(k) = i - 1]]

\* _get_data_block_size(table)
RECURSIVE get_data_block_size(_)
get_data_block_size(table) ==
    IF table = <<>> THEN 0
    ELSE Len(Utf8Encode(table[1][2])) + 1 + get_data_block_size(Tail(table))

\* the entry loop of save_as_gxt: [f, tdat_pos]
RECURSIVE SaWriteEntries(_, _, _, _, _)
SaWriteEntries(es, f, current_tdat_data_pos, current_tkey_data_pos, tdat_offset) ==
    IF es = <<>> THEN [f |-> f, tdat_pos |-> current_tdat_data_pos]
    ELSE LET text_bytes == Utf8Encode(es[1][2]) \o <<0>>
             f1 == WriteAt(f, current_tdat_data_pos, text_bytes)
             data_offset == current_tdat_data_pos - tdat_offset - 8
             f2 == WriteAt(f1, current_tkey_data_pos, PackI(data_offset) \o U32LE(es[1][1]))
         IN SaWriteEntries(Tail(es), f2, current_tdat_data_pos + Len(text_bytes),
                           current_tkey_data_pos + SizeOfTKEY, tdat_offset)

\* the table loop of save_as_gxt
RECURSIVE SaWriteTables(_, _, _, _, _)
SaWriteTables(tabs, f, fo_table_block, fo_key_block, key_block_offset) ==
    IF tabs = <<>> THEN f
    ELSE LET table_name == tabs[1][1]
             entries == tabs[1][2]
             key_block_size == Len(entries) * SizeOfTKEY
             data_block_size == get_data_block_size(entries)
             name8 == Ljust8(SubSeq(table_name, 1, Min(7, Len(table_name))))
             f1 == WriteAt(f, fo_table_block, name8 \o PackI(key_block_offset))
             hdr == (IF table_name # NameMAIN THEN name8 ELSE <<>>)
                    \o TagTKEY \o PackI(key_block_size)
             f2 == WriteAt(f1, fo_key_block, hdr)
             current_tkey_data_pos == fo_key_block + Len(hdr)
             tdat_offset == current_tkey_data_pos + key_block_size
             f3 == WriteAt(f2, tdat_offset, TagTDAT \o PackI(data_block_size))
             r == SaWriteEntries(SortEntries(entries), f3, tdat_offset + 8,
                                 current_tkey_data_pos, tdat_offset)
         IN SaWriteTables(Tail(tabs), r.f, fo_table_block + SizeOfTABL, r.tdat_pos, r.tdat_pos)

\* SAGXT.save_as_gxt: the bytes of the written file
SAGXT_save_as_gxt(doc) ==
    LET table_block_size == Len(doc) * SizeOfTABL
        head == U16LE(4) \o U16LE(8) \o TagTABL \o PackI(table_block_size)
    IN SaWriteTables(SortTables(doc), head, 12, 12 + table_block_size, 12 + table_block_size)

(***************************************************************************)
(* IVGXT: the IV writer                                                    *)
(***************************************************************************)
\* name_to_8_bytes(name)
name_to_8_bytes(name) ==
    LET b == Slice(Utf8Encode(name), 0, 8) IN b \o Zeros(8 - Len(b))

\* u8_to_u16_list(u8_string)
u8_to_u16_list(t) ==
    IF t = <<>> THEN <<0>>
    ELSE LET u16 == Utf16Units(t)
         IN IF u16[Len(u16)] # 0 THEN Append(u16, 0) ELSE u16

\* the value of a hex digit, -1 for any other character
HexVal(c) ==
    IF c >= 48 /\ c <= 57 THEN c - 48
    ELSE IF c >= 65 /\ c <= 70 THEN c - 55
    ELSE IF c >= 97 /\ c <= 102 THEN c - 87
    ELSE -1

\* int(digits, 16) for at most 8 hex digits, as a 32-bit value
RECURSIVE HexInt(_, _)
HexInt(ds, acc) ==
    IF ds = <<>> THEN acc
    ELSE HexInt(Tail(ds), <<(acc[1] % 4096) * 16 + acc[2] \div 4096,
                            (acc[2] % 4096) * 16 + HexVal(ds[1])>>)

\* int(digits) for decimal digits, as a 32-bit value
RECURSIVE DecInt(_, _)
DecInt(ds, acc) ==
    IF ds = <<>> THEN U32(acc) ELSE DecInt(Tail(ds), acc * 10 + (ds[1] - 48))

StartsWith0x(k) == Len(k) >= 2 /\ k[1] = 48 /\ (k[2] = 120 \/ k[2] = 88)

\* int(key, 16) returns for a key that starts with '0x': hex digits follow, each
\* of them possibly after one underscore
Int16Takes(k) ==
    /\ StartsWith0x(k)
    /\ Len(k) > 2
    /\ k[Len(k)] # 95
    /\ \A i \in 3..Len(k) : HexVal(k[i]) >= 0 \/ (k[i] = 95 /\ k[i - 1] # 95)

\* int(key, 16) of such a key of at most 8 digits
Int16(k) == HexInt(SelectSeq(SubSeq(k, 3, Len(k)), LAMBDA c : c # 95), <<0, 0>>)

\* the hash of an entry in generate_binary: int(hash_str, 16) for a '0x' string,
\* int(hash_str) otherwise, 0 (with a warning) for a string int() rejects; strings of
\* up to 8 hex digits or 9 decimal digits (the values struct.pack accepts)
HashOfString(hash_str) ==
    LET ds == SubSeq(hash_str, 3, Len(hash_str))
    IN IF StartsWith0x(hash_str)
       THEN IF ds # <<>> /\ Len(ds) <= 8 /\ \A i \in 1..Len(ds) : HexVal(ds[i]) >= 0
            THEN HexInt(ds, <<0, 0>>)
            ELSE <<0, 0>>
       ELSE IF hash_str # <<>> /\ Len(hash_str) <= 9
               /\ \A i \in 1..Len(hash_str) : hash_str[i] >= 48 /\ hash_str[i] <= 57
            THEN DecInt(hash_str, 0)
            ELSE <<0, 0>>

\* sorted(names): a set of distinct names in ascending order
SortNames(S) ==
    LET rank(a) == Cardinality({b \in S : SeqLt(b, a)})
    IN [i \in 1..Cardinality(S) |-> CHOOSE a \in S : rank(a) = i - 1]

\* the rows and the data of one table: [keys, datas]
RECURSIVE IvEntries(_, _, _)
IvEntries(entries, keys, datas) ==
    IF entries = <<>> THEN [keys |-> keys, datas |-> datas]
    ELSE IvEntries(Tail(entries),
                   keys \o PackI(Len(datas) * 2) \o U32LE(HashOfString(entries[1][1])),
                   datas \o u8_to_u16_list(entries[1][2]))

\* the table loop of generate_binary: [f, table_entries]
RECURSIVE IvWriteTables(_, _, _, _)
IvWriteTables(m_Data, names, f, table_entries) ==
    IF names = <<>> THEN [f |-> f, table_entries |-> table_entries]
    ELSE LET table_name == names[1]
             entries == IF DictHas(m_Data, table_name) THEN DictGet(m_Data, table_name) ELSE <<>>
             e == IvEntries(entries, <<>>, <<>>)
             body == (IF table_name = NameMAIN THEN <<>> ELSE name_to_8_bytes(table_name))
                     \o TagTKEY \o PackI(Len(e.keys)) \o e.keys
                     \o TagTDAT \o PackI(Len(e.datas) * 2) \o BytesOf(e.datas)
             end == Len(f) + Len(body)
             pad_len == IF Len(names) > 1 THEN (4 - (end % 4)) % 4 ELSE 0
         IN IvWriteTables(m_Data, Tail(names), f \o body \o Zeros(pad_len),
                          table_entries \o name_to_8_bytes(table_name) \o PackI(Len(f)))

\* generate_binary(m_Data, output_path): the bytes of the written file
generate_binary(m_Data) ==
    LET table_names == <<NameMAIN>> \o SortNames(Keys(m_Data) \ {NameMAIN})
        table_count == Len(table_names)
        head == U16LE(4) \o U16LE(16) \o TagTABL \o PackI(table_count * 12)
        r == IvWriteTables(m_Data, table_names, head \o Zeros(table_count * 12), <<>>)
    IN WriteAt(r.f, 12, r.table_entries)

(***************************************************************************)
(* LCGXT: the III writer                                                   *)
(***************************************************************************)
SIZE_OF_TKEY == 12

\* utf8_to_utf16 without the terminating zero unit
utf8_to_utf16_unterminated(t) == Utf16Units(t)

\* LCGXT.utf8_to_utf16(s)
utf8_to_utf16(t) == Append(Utf16Units(t), 0)

\* LCGXT.get_data_block_size()
RECURSIVE lc_data_block_size(_)
lc_data_block_size(d) ==
    IF d = <<>> THEN 0 ELSE Len(d[1][2]) * 2 + lc_data_block_size(Tail(d))

\* the entry loop of LCGXT.save_as_gxt, entry i onwards
RECURSIVE LcWriteEntries(_, _, _, _, _)
LcWriteEntries(d, i, f, current_data_pos, key_block_size) ==
    IF i > Len(d) THEN f
    ELSE LET key == d[i][1]
             offset == current_data_pos - (key_block_size + 16)
             key_name == Slice(key \o Zeros(7 - Len(key)), 0, 7)
             f1 == WriteAt(f, 8 + (i - 1) * SIZE_OF_TKEY, PackI(offset) \o key_name \o <<0>>)
             f2 == WriteAt(f1, current_data_pos, BytesOf(d[i][2]))
         IN LcWriteEntries(d, i + 1, f2, current_data_pos + Len(d[i][2]) * 2, key_block_size)

\* LCGXT.save_as_gxt(path): the bytes of the written file (d is not empty)
LCGXT_save_as_gxt(d) ==
    LET key_block_size == Len(d) * SIZE_OF_TKEY
        data_block_size == lc_data_block_size(d)
        f0 == TagTKEY \o PackI(key_block_size)
        f1 == WriteAt(f0, 8 + key_block_size, TagTDAT \o PackI(data_block_size))
    IN LcWriteEntries(d, 1, f1, 8 + key_block_size + 8, key_block_size)

(***************************************************************************)
(* gta5_gxt2: the GXT2 writer and reader                                   *)
(***************************************************************************)
Tag2TXG == <<50, 84, 88, 71>>
align_strings == 4

\* sorted(strings.keys())
sorted_hashes(strings) ==
    LET n == Len(strings)
        rank(k) == Cardinality({j \in 1..n : Lt32(strings[j][1], strings[k][1])})
    IN [i \in 1..n |-> strings[CHOOSE k \in 1..n : rank(k) = i - 1][1]]

\* the string area and the entry table of save_gxt2: [string_data, table]
RECURSIVE Gxt2Layout(_, _, _, _, _)
Gxt2Layout(strings, hs, string_start, string_data, table) ==
    IF hs = <<>> THEN [string_data |-> string_data, table |-> table]
    ELSE Gxt2Layout(strings, Tail(hs), string_start,
                    string_data \o Utf8Encode(DictGet(strings, hs[1])) \o <<0>>,
                    table \o U32LE(hs[1]) \o PackI(string_start + Len(string_data)))

\* save_gxt2(strings, path) with its default arguments, strings not empty
save_gxt2(strings) ==
    LET hs == sorted_hashes(strings)
        num == Len(hs)
        header1 == Tag2TXG \o PackI(num)
        pre_string_len == Len(header1) + 8 * num + 8
        rem == pre_string_len % align_strings
        padding == IF rem # 0 THEN align_strings - rem ELSE 0
        string_start == pre_string_len + padding
        r == Gxt2Layout(strings, hs, string_start, <<>>, <<>>)
        total_size == string_start + Len(r.string_data)
    IN header1 \o r.table \o Tag2TXG \o PackI(total_size) \o Zeros(padding) \o r.string_data

\* the entry loop of parse_gxt2: [ok, entries, pos]; a short row makes struct.unpack raise
RECURSIVE Gxt2Entries(_, _, _, _)
Gxt2Entries(bs, pos, n, entries) ==
    IF n = <<0, 0>> THEN [ok |-> TRUE, entries |-> entries, pos |-> pos]
    ELSE IF pos + 8 > Len(bs) THEN Raise
    ELSE Gxt2Entries(bs, pos + 8,
                     IF n[2] > 0 THEN <<n[1], n[2] - 1>> ELSE <<n[1] - 1, 65535>>,
                     DictSet(entries, UnpackI(bs, pos), UnpackI(bs, pos + 4)))

\* one string of parse_gxt2 read up to the end of the file, NULs included
Gxt2StringToEnd(bs, offset) ==
    Slice(bs, IF Fits(offset) THEN Min(ToInt(offset), Len(bs)) ELSE Len(bs), Len(bs))

\* the bytes of one string of parse_gxt2: from offset up to a NUL or the end of the file
Gxt2String(bs, offset) ==
    LET start == IF Fits(offset) THEN Min(ToInt(offset), Len(bs)) ELSE Len(bs)
    IN Slice(bs, start, EndOf(bs, start))

\* the text of one string: utf-8, else cp1252 with replacement (kept opaque)
Gxt2Text(raw) ==
    LET u == Utf8Decode(raw) IN IF u.ok THEN u.s ELSE <<-1>> \o raw

\* parse_gxt2(path): [ok, strings]
parse_gxt2(bs) ==
    IF Len(bs) < 8 \/ Slice(bs, 0, 4) # Tag2TXG THEN Raise
    ELSE LET e == Gxt2Entries(bs, 8, UnpackI(bs, 4), <<>>)
         IN IF ~e.ok THEN Raise
            ELSE IF Slice(bs, e.pos, e.pos + 4) # Tag2TXG THEN Raise
            ELSE [ok |-> TRUE,
                  strings |-> [i \in 1..Len(e.entries) |->
                                 <<e.entries[i][1], Gxt2Text(Gxt2String(bs, e.entries[i][2]))>>]]

(***************************************************************************)
(* GTA4_WHM_Text_Extractor: FNV-1a, windows-1252, the text ledger          *)
(***************************************************************************)
\* a ^ b on n bits
RECURSIVE Xor(_, _, _)
Xor(a, b, n) == IF n = 0 THEN 0 ELSE ((a + b) % 2) + 2 * Xor(a \div 2, b \div 2, n - 1)

\* 0x811C9DC5 and 0x01000193
FNV_OFFSET_BASIS_32 == <<33052, 40389>>
FNV_PRIME_32 == <<256, 403>>

\* (hash_val ^ byte) * FNV_PRIME_32, & 0xFFFFFFFF
FnvStep(w, byte) ==
    <<(w[1] * FNV_PRIME_32[2]
         + (((w[2] \div 256) * 256 + Xor(w[2] % 256, byte, 8)) * FNV_PRIME_32[2]) \div 65536
         + ((w[2] \div 256) * 256 + Xor(w[2] % 256, byte, 8)) * FNV_PRIME_32[1]) % 65536,
      (((w[2] \div 256) * 256 + Xor(w[2] % 256, byte, 8)) * FNV_PRIME_32[2]) % 65536>>

RECURSIVE FnvFrom(_, _)
FnvFrom(bytes, hash_val) ==
    IF bytes = <<>> THEN hash_val ELSE FnvFrom(Tail(bytes), FnvStep(hash_val, bytes[1]))

\* fnv1a_32(data)
fnv1a_32(bytes) == FnvFrom(bytes, FNV_OFFSET_BASIS_32)

\* the characters of the bytes 0x80..0x9F in windows-1252, 0 where the byte has none
Cp1252High ==
    << 8364, 0, 8218, 402, 8222, 8230, 8224, 8225, 710, 8240, 352, 8249, 338, 0, 381, 0,
       0, 8216, 8217, 8220, 8221, 8226, 8211, 8212, 732, 8482, 353, 8250, 339, 0, 382, 376 >>

\* the windows-1252 byte of a character, -1 when it has none
Cp1252Byte(c) ==
    IF c < 128 \/ (c >= 160 /\ c <= 255) THEN c
    ELSE IF c # 0 /\ \E i \in 1..32 : Cp1252High[i] = c
    THEN 127 + (CHOOSE i \in 1..32 : Cp1252High[i] = c)
    ELSE -1

\* text_str.encode('windows-1252'), b'' on UnicodeEncodeError
EncodeOrEmpty(t) ==
    IF \E i \in 1..Len(t) : Cp1252Byte(t[i]) = -1 THEN <<>>
    ELSE [i \in 1..Len(t) |-> Cp1252Byte(t[i])]

\* str.isspace(): the characters str.strip() removes
IsSpace(c) ==
    c \in (9..13) \cup (28..32) \cup {133, 160, 5760, 8232, 8233, 8239, 8287, 12288}
          \cup (8192..8202)

\* line.strip()
Strip(line) ==
    IF \A i \in 1..Len(line) : IsSpace(line[i]) THEN <<>>
    ELSE SubSeq(line,
                CHOOSE i \in 1..Len(line) :
                    ~IsSpace(line[i]) /\ \A j \in 1..(i - 1) : IsSpace(line[j]),
                CHOOSE i \in 1..Len(line) :
                    ~IsSpace(line[i]) /\ \A j \in (i + 1)..Len(line) : IsSpace(line[j]))

\* entry_regex.match(line): 0x or 0X, eight hex digits, '='
MatchesEntry(line) ==
    /\ Len(line) >= 11
    /\ line[1] = 48 /\ line[2] \in {120, 88} /\ line[11] = 61
    /\ \A i \in 3..10 : HexVal(line[i]) >= 0

\* str.replace(old, new) for an old of two characters and a new of one
RECURSIVE Replace(_, _, _)
Replace(t, old, new) ==
    IF Len(t) < 2 THEN t
    ELSE IF SubSeq(t, 1, 2) = old THEN <<new>> \o Replace(SubSeq(t, 3, Len(t)), old, new)
    ELSE <<t[1]>> \o Replace(Tail(t), old, new)

\* text_str.replace('\\n', '\n').replace('\\r', '\r')
Unescape(t) == Replace(Replace(t, <<92, 110>>, 10), <<92, 114>>, 13)

\* IsBlankText(text)
IsBlankText(text) == \A i \in 1..Len(text) : text[i] = 32 \/ text[i] = 9

\* the end of the loop body of LoadText: the entry is appended unless the text is
\* blank or hashes to the key
AppendEntry(hash_val, text_str) ==
    IF ~IsBlankText(text_str) /\ hash_val # fnv1a_32(EncodeOrEmpty(text_str))
    THEN <<<<hash_val, text_str>>>>
    ELSE <<>>

\* the loop body of LoadText for a stripped line: the entries it appends
LoadLine(line) ==
    IF line = <<>> \/ line[1] = 59 THEN <<>>
    ELSE IF ~MatchesEntry(line) THEN <<>>
    ELSE AppendEntry(HexInt(SubSeq(line, 3, 10), <<0, 0>>),
                     Unescape(SubSeq(line, 12, Len(line))))

\* LoadText(filename) on the lines of the file (a line holds no line break)
RECURSIVE LoadText(_)
LoadText(lines) ==
    IF lines = <<>> THEN <<>> ELSE LoadLine(Strip(lines[1])) \o LoadText(Tail(lines))

(***************************************************************************)
(* GTA4_WHM_Text_Extractor: the translation database whm_table.dat         *)
(***************************************************************************)
\* GenerateDataBase without the terminator after each text
RECURSIVE DbBuildUnterminated(_, _, _)
DbBuildUnterminated(texts, text_table, text_data) ==
    IF texts = <<>> THEN <<text_table, text_data>>
    ELSE DbBuildUnterminated(Tail(texts),
                 text_table \o U32LE(texts[1][1]) \o PackI(Len(text_data)),
                 text_data \o Utf8Encode(texts[1][2]))

\* one round of the first loop of GenerateDataBase: the table entry and the blob
RECURSIVE DbBuild(_, _, _)
DbBuild(texts, text_table, text_data) ==
    IF texts = <<>> THEN <<text_table, text_data>>
    ELSE DbBuild(Tail(texts),
                 text_table \o U32LE(texts[1][1]) \o PackI(Len(text_data)),
                 text_data \o Utf8Encode(texts[1][2]) \o <<0>>)

\* the four writes of GenerateDataBase: count, the table, the blob size, the blob
DbWrite(count, built) == PackI(count) \o built[1] \o PackI(Len(built[2])) \o built[2]

\* GenerateDataBase on the entries LoadText gave for the folder's ledgers
GenerateDataBase(texts) == DbWrite(Len(texts), DbBuild(texts, <<>>, <<>>))

\* bts.decode('cp1252') of one byte: 0 when the byte has no character
Cp1252Char(b) == IF b >= 128 /\ b <= 159 THEN Cp1252High[b - 127] ELSE b

\* CHtmlTextExport.decode_bytes: utf-8, then cp1252, then latin1
WhmDecodeBytes(bts) ==
    IF Utf8Decode(bts).ok THEN Utf8Decode(bts).s
    ELSE IF \A i \in 1..Len(bts) : bts[i] = 0 \/ Cp1252Char(bts[i]) # 0
    THEN [i \in 1..Len(bts) |-> Cp1252Char(bts[i])]
    ELSE bts

\* "[二进制数据]" of ParseWhmTable and "[BINARY]" of open_dat
BinaryMarker == <<91, 20108, 36827, 21046, 25968, 25454, 93>>
BINARY == <<91, 66, 73, 78, 65, 82, 89, 93>>

\* the loop over range(count) of ParseWhmTable: [ok, entries, off]
RECURSIVE DbEntries(_, _, _, _)
DbEntries(bs, n, off, acc) ==
    IF n = 0 THEN [ok |-> TRUE, entries |-> acc, off |-> off]
    ELSE IF off + 8 > Len(bs) THEN Raise
    ELSE DbEntries(bs, n - 1, off + 8, Append(acc, <<UnpackI(bs, off), UnpackI(bs, off + 4)>>))

\* data[blob_start:blob_start + blob_size], blob_size cut to the file
DbBlob(bs, blob_start, blob_size) ==
    Slice(bs, blob_start,
          IF ~Fits(blob_size) \/ blob_start + ToInt(blob_size) > Len(bs)
          THEN Len(bs) ELSE blob_start + ToInt(blob_size))

\* j after "while j < blob_size and blob[j] != 0: j += 1" from j = off
ScanEnd(blob, off) ==
    IF \E j \in (off + 1)..Len(blob) : blob[j] = 0
    THEN (CHOOSE j \in (off + 1)..Len(blob) :
             blob[j] = 0 /\ \A k \in (off + 1)..(j - 1) : blob[k] # 0) - 1
    ELSE Len(blob)

\* an entry read without the test of its offset
DbTextUnchecked(blob, o, marker) ==
    WhmDecodeBytes(Slice(blob, IF Fits(o) THEN ToInt(o) ELSE Len(blob),
                         ScanEnd(blob, IF Fits(o) THEN ToInt(o) ELSE Len(blob))))

\* the text of one entry: the decoded bytes at its offset, or the marker
DbText(blob, o, marker) ==
    IF Fits(o) /\ ToInt(o) < Len(blob)
    THEN WhmDecodeBytes(Slice(blob, ToInt(o), ScanEnd(blob, ToInt(o))))
    ELSE marker

\* the loop over entries: the (hash, text) pairs in table order
DbResults(entries, blob, marker) ==
    [i \in 1..Len(entries) |-> <<entries[i][1], DbText(blob, entries[i][2], marker)>>]

\* the blob-size field and the entries, t what the table loop gave: [ok, results]
DbRead(bs, t, marker) ==
    IF ~t.ok THEN Raise
    ELSE IF t.off + 4 > Len(bs) THEN Raise
    ELSE [ok |-> TRUE,
          results |-> DbResults(t.entries, DbBlob(bs, t.off + 4, UnpackI(bs, t.off)), marker)]

\* the table loop for the declared count; a count no file can hold runs into the
\* truncation test like any count above the rows present
DbTable(bs, count) ==
    DbEntries(bs, IF Fits(count) THEN ToInt(count) ELSE Len(bs), 4, <<>>)

\* ParseWhmTable(input_file, output_file): the results list, [ok, results]
ParseWhmTable(bs) ==
    IF Len(bs) < 4 THEN Raise ELSE DbRead(bs, DbTable(bs, UnpackI(bs, 0)), BinaryMarker)

\* self.data[table_name][key] = text over the entries of open_dat
RECURSIVE DatDict(_, _)
DatDict(pairs, d) ==
    IF pairs = <<>> THEN d
    ELSE DatDict(Tail(pairs), DictSet(d, <<48, 120>> \o Hex8(pairs[1][1]), pairs[1][2]))

\* "whm_table"
whm_table == <<119, 104, 109, 95, 116, 97, 98, 108, 101>>

\* open_dat(path): [ok, data]
open_dat(bs) ==
    IF Len(bs) < 4 THEN Raise ELSE DbRead(bs, DbTable(bs, UnpackI(bs, 0)), BINARY)

(***************************************************************************)
(* GTA4_WHM_Text_Extractor: tagged pointers, the node walk, the filter     *)
(***************************************************************************)
\* ptr_element_type.Cpu_Type; ctypes.sizeof of pgPtr, CHtmlNode, CHtmlDocument
Cpu_Type == 5
sizeof_pgPtr == 4
sizeof_CHtmlNode == 216
sizeof_CHtmlDocument == 44

\* HtmlNodeType.Node_HtmlDataNode as the u32 m_eNodeType holds it
Node_HtmlDataNode == <<0, 1>>

\* the tag read from three bits only
PtrT_3bit(v) == (v[1] \div 4096) % 8

\* pgPtr.locate for a structure without the test that the structure ends inside the
\* block
Locate_start_only(blk, v, n) ==
    IF blk = <<>> \/ v[1] \div 4096 # Cpu_Type THEN -1
    ELSE IF (v[1] % 4096) * 65536 + v[2] >= Len(blk) THEN -1
    ELSE (v[1] % 4096) * 65536 + v[2]

\* pgPtr.o and pgPtr.t of the 32-bit _value v
PtrO(v) == (v[1] % 4096) * 65536 + v[2]
PtrT(v) == v[1] \div 4096

\* pgPtr.locate(block, struct_type) for a structure of n bytes: the offset of the
\* structure, -1 for None
Locate(blk, v, n) ==
    IF blk = <<>> \/ PtrT(v) # Cpu_Type THEN -1
    ELSE IF PtrO(v) >= Len(blk) THEN -1
    ELSE IF PtrO(v) + n > Len(blk) THEN -1
    ELSE PtrO(v)

\* pgPtr.locate(block, c_char): the bytes before the first NUL; None is given as the
\* empty string, the caller tests "if data_bytes" only
LocateStr(blk, v) ==
    IF blk = <<>> \/ PtrT(v) # Cpu_Type \/ PtrO(v) >= Len(blk) THEN <<>>
    ELSE IF \A i \in (PtrO(v) + 1)..Len(blk) : blk[i] # 0 THEN <<>>
    ELSE SplitNul(SubSeq(blk, PtrO(v) + 1, Len(blk)))

\* pgPtr.locate(block, c_char) with None told apart from an empty string: <<>> for
\* None, <<bytes>> for the bytes before the first NUL at or after the offset
locate_c_char(blk, v) ==
    IF blk = <<>> \/ PtrT(v) # Cpu_Type \/ PtrO(v) >= Len(blk) THEN <<>>
    ELSE IF \A i \in (PtrO(v) + 1)..Len(blk) : blk[i] # 0 THEN <<>>
    ELSE <<SplitNul(SubSeq(blk, PtrO(v) + 1, Len(blk)))>>

\* pgPtr.locate(block, struct_type) for a structure of n bytes: <<>> for None, else
\* <<the offset the structure is read at>>
locate_struct(blk, v, n) == IF Locate(blk, v, n) = -1 THEN <<>> ELSE <<Locate(blk, v, n)>>

\* num_elements of get_span: the larger of count and size, count when that overruns
\* the block, nothing when count overruns too
SpanCount(blk, offset, count, size) ==
    IF offset + (IF count > size THEN count ELSE size) * sizeof_pgPtr > Len(blk)
    THEN IF offset + count * sizeof_pgPtr > Len(blk) THEN 0 ELSE count
    ELSE IF count > size THEN count ELSE size

\* get_span with num_elements = count, whatever size says
get_span_counted(blk, a) ==
    IF blk = <<>> \/ PtrT(UnpackI(blk, a)) # Cpu_Type THEN <<>>
    ELSE [i \in 1..SpanCount(blk, PtrO(UnpackI(blk, a)), UnpackH(blk, a + 4), 0) |->
            UnpackI(blk, PtrO(UnpackI(blk, a)) + sizeof_pgPtr * (i - 1))]

\* pgObjectArray.get_span(block, pgPtr) of the array at offset a: the _value of
\* each element
get_span(blk, a) ==
    IF blk = <<>> \/ PtrT(UnpackI(blk, a)) # Cpu_Type THEN <<>>
    ELSE [i \in 1..SpanCount(blk, PtrO(UnpackI(blk, a)), UnpackH(blk, a + 4),
                             UnpackH(blk, a + 6)) |->
            UnpackI(blk, PtrO(UnpackI(blk, a)) + sizeof_pgPtr * (i - 1))]

\* bytes.rfind(tag): the last 0-based index of tag in bs, -1 when absent
RFind(bs, tag) ==
    IF \E i \in 0..(Len(bs) - Len(tag)) : SubSeq(bs, i + 1, i + Len(tag)) = tag
    THEN CHOOSE i \in 0..(Len(bs) - Len(tag)) :
            /\ SubSeq(bs, i + 1, i + Len(tag)) = tag
            /\ \A j \in (i + 1)..(Len(bs) - Len(tag)) : SubSeq(bs, j + 1, j + Len(tag)) # tag
    ELSE -1

validate_digit_char(c) == c >= 48 /\ c <= 57
validate_english_char(c) == (c >= 97 /\ c <= 122) \/ (c >= 65 /\ c <= 90)
validate_efigs_char(c) == validate_english_char(c) \/ c >= 192
validate_url_char(c) ==
    validate_english_char(c) \/ validate_digit_char(c) \/ c \in {46, 37, 64, 45, 95}

\* validate_url with the test of the characters alone
validate_url_chars(view) ==
    view # <<>> /\ \A i \in 1..Len(view) : validate_url_char(view[i])

validate_url(view) ==
    /\ view # <<>>
    /\ \A i \in 1..Len(view) : validate_url_char(view[i])
    /\ Find(view, <<46>>) # -1
    /\ Find(view, <<46>>) # 0
    /\ RFind(view, <<46>>) # Len(view) - 1

validate_string(view) ==
    (\E i \in 1..Len(view) : validate_efigs_char(view[i])) /\ ~validate_url(view)

\* TryAppendString without the test of the hash set
TryAppendStringAll(st, view) ==
    IF view = <<>> THEN st
    ELSE IF validate_string(view)
    THEN <<Append(st[1], <<fnv1a_32(view), view>>), st[2] \cup {fnv1a_32(view)}>>
    ELSE st

\* TryAppendString(container, ptr, hashes) on st = <<container, hashes>>
TryAppendString(st, view) ==
    IF view = <<>> THEN st
    ELSE IF validate_string(view) /\ fnv1a_32(view) \notin st[2]
    THEN <<Append(st[1], <<fnv1a_32(view), view>>), st[2] \cup {fnv1a_32(view)}>>
    ELSE st

\* ExtractNodeStrings(node, block, container, hashes) for the node at offset node;
\* mem is the block with the bytes that follow it in memory, which the cast to
\* CHtmlDataNode reads when the node ends at the end of the block
RECURSIVE ExtractNodeStrings(_, _, _, _)
RECURSIVE ExtractChildren(_, _, _, _)

\* the part of ExtractNodeStrings after the loop: the node's own type
ExtractOwn(node, blk, mem, st) ==
    IF UnpackI(blk, node + 4) = Node_HtmlDataNode
    THEN TryAppendString(st, LocateStr(blk, UnpackI(mem, node + sizeof_CHtmlNode)))
    ELSE st

\* the loop over node.m_children.get_span(block, pgPtr)
ExtractChildren(span, blk, mem, st) ==
    IF span = <<>> THEN st
    ELSE ExtractChildren(Tail(span), blk, mem,
            IF Locate(blk, span[1], sizeof_CHtmlNode) = -1 THEN st
            ELSE ExtractNodeStrings(Locate(blk, span[1], sizeof_CHtmlNode), blk, mem, st))

\* ExtractNodeStrings with the node's own text taken before its children
ExtractNodeStrings_own_first(node, blk, mem, st) ==
    ExtractChildren(get_span(blk, node + 12), blk, mem, ExtractOwn(node, blk, mem, st))

ExtractNodeStrings(node, blk, mem, st) ==
    ExtractOwn(node, blk, mem, ExtractChildren(get_span(blk, node + 12), blk, mem, st))

\* ExtractWhmStrings(filename, hashes) on the block UnpackWhm returned:
\* <<container, hashes>>
ExtractWhmStrings(blk, mem, hs) ==
    IF blk = <<>> \/ Len(blk) < sizeof_CHtmlDocument THEN <<<<>>, hs>>
    ELSE IF Locate(blk, UnpackI(blk, 4), sizeof_CHtmlNode) = -1 THEN <<<<>>, hs>>
    ELSE ExtractNodeStrings(Locate(blk, UnpackI(blk, 4), sizeof_CHtmlNode), blk, mem,
                            <<<<>>, hs>>)

(***************************************************************************)
(* The key hashes of the text loaders: gta4_gxt_hash, gta_sa_hash          *)
(***************************************************************************)
\* on 32-bit values: a + b, a << k and a >> k for 0 < k < 16, a ^ b
Add32(a, b) == <<(a[1] + b[1] + (a[2] + b[2]) \div 65536) % 65536, (a[2] + b[2]) % 65536>>
Shl32(a, k) == <<(a[1] * 2^k + a[2] \div 2^(16 - k)) % 65536, (a[2] * 2^k) % 65536>>
Shr32(a, k) == <<a[1] \div 2^k, a[2] \div 2^k + (a[1] % 2^k) * 2^(16 - k)>>
Xor32(a, b) == <<Xor(a[1], b[1], 16), Xor(a[2], b[2], 16)>>

\* the character gta4_gxt_hash hashes: 'A'..'Z' in lower case, '\' as '/'
Gta4Char(c) == IF c >= 65 /\ c <= 90 THEN c + 32 ELSE IF c = 92 THEN 47 ELSE c

\* mult = 1025 * tmp, then (mult >> 6) ^ mult
Gta4Mult(tmp) == Add32(tmp, Shl32(tmp, 10))
Gta4Mix(mult) == Xor32(Shr32(mult, 6), mult)
Gta4Step(ret_hash, c) == Gta4Mix(Gta4Mult(Add32(ret_hash, U32(Gta4Char(c) % 256))))

RECURSIVE Gta4From(_, _)
Gta4From(key, ret_hash) ==
    IF key = <<>> THEN ret_hash ELSE Gta4From(Tail(key), Gta4Step(ret_hash, key[1]))

\* a = 9 * ret_hash, a_x = a ^ (a >> 11), 32769 * a_x
Gta4Nine(h) == Add32(h, Shl32(h, 3))
Gta4Ax(a) == Xor32(a, Shr32(a, 11))
Gta4Last(a_x) == Add32(a_x, Shl32(a_x, 15))

\* gta4_gxt_hash(key)
gta4_gxt_hash(key) == Gta4Last(Gta4Ax(Gta4Nine(Gta4From(key, <<0, 0>>))))

\* CRC32_TABLE, each entry as its two 16-bit halves
CRC32_TABLE_words == <<
    <<0, 0>>, <<30471, 12438>>, <<60942, 24876>>, <<39177, 20922>>,
    <<1901, 50201>>, <<28778, 62607>>, <<59747, 42293>>, <<40548, 38307>>,
    <<3803, 34866>>, <<31196, 47268>>, <<57557, 59678>>, <<38866, 55688>>,
    <<2486, 19499>>, <<32433, 31933>>, <<59320, 11527>>, <<37055, 7569>>,
    <<7607, 4196>>, <<27312, 8434>>, <<62393, 29000>>, <<33982, 16862>>,
    <<6874, 54397>>, <<28125, 58603>>, <<62676, 46417>>, <<33747, 34247>>,
    <<4972, 38998>>, <<25707, 43200>>, <<64866, 63866>>, <<35429, 51692>>,
    <<5121, 23631>>, <<25350, 27865>>, <<64015, 15715>>, <<36104, 3573>>,
    <<15214, 8392>>, <<19561, 4190>>, <<54624, 16868>>, <<41575, 29042>>,
    <<15363, 58577>>, <<19204, 54343>>, <<53773, 34301>>, <<42250, 46443>>,
    <<13749, 43258>>, <<17074, 39020>>, <<56251, 51670>>, <<44220, 63808>>,
    <<13016, 27875>>, <<17887, 23669>>, <<56534, 3535>>, <<43985, 15705>>,
    <<9945, 12460>>, <<20958, 58>>, <<51415, 20864>>, <<49104, 24854>>,
    <<8628, 62645>>, <<22195, 50211>>, <<53178, 38297>>, <<47293, 42255>>,
    <<10242, 47262>>, <<24325, 34824>>, <<50700, 55730>>, <<45323, 59684>>,
    <<12143, 31879>>, <<22632, 19473>>, <<49505, 7595>>, <<46694, 11581>>,
    <<30428, 16784>>, <<475, 28934>>, <<39122, 8380>>, <<61397, 4138>>,
    <<29105, 34185>>, <<1718, 46367>>, <<40895, 58533>>, <<59576, 54323>>,
    <<30727, 51618>>, <<3840, 63796>>, <<38409, 43150>>, <<57614, 38936>>,
    <<32618, 3515>>, <<2157, 15661>>, <<37220, 27799>>, <<58979, 23553>>,
    <<27499, 20980>>, <<7276, 24930>>, <<34149, 12504>>, <<62050, 78>>,
    <<27654, 38381>>, <<6913, 42363>>, <<33288, 62657>>, <<62735, 50263>>,
    <<26032, 55750>>, <<4791, 59728>>, <<35774, 47338>>, <<64697, 34940>>,
    <<25309, 7647>>, <<5594, 11593>>, <<36051, 31987>>, <<64468, 19557>>,
    <<19890, 24920>>, <<15029, 20942>>, <<41916, 116>>, <<54459, 12514>>,
    <<19167, 42305>>, <<15832, 38359>>, <<42193, 50285>>, <<54230, 62715>>,
    <<17257, 59754>>, <<13422, 55804>>, <<44391, 34886>>, <<55904, 47312>>,
    <<17412, 11635>>, <<13059, 7653>>, <<43530, 19551>>, <<56589, 31945>>,
    <<20485, 28988>>, <<9986, 16810>>, <<48651, 4112>>, <<51468, 8326>>,
    <<22376, 46373>>, <<8303, 34227>>, <<47462, 54281>>, <<52833, 58527>>,
    <<24286, 63758>>, <<10713, 51608>>, <<45264, 38946>>, <<51159, 43188>>,
    <<22963, 15639>>, <<11956, 3457>>, <<47037, 23611>>, <<49338, 27821>>,
    <<60856, 33568>>, <<39615, 46006>>, <<950, 57868>>, <<29873, 53914>>,
    <<60117, 18233>>, <<40402, 30639>>, <<1243, 9749>>, <<29660, 5763>>,
    <<58211, 2834>>, <<37988, 15236>>, <<3437, 27198>>, <<31338, 23208>>,
    <<58382, 53003>>, <<37641, 65437>>, <<2560, 44583>>, <<32007, 40625>>,
    <<61455, 37700>>, <<34568, 41938>>, <<7681, 62056>>, <<26886, 49918>>,
    <<63330, 22365>>, <<32869, 26571>>, <<6508, 13937>>, <<28267, 1767>>,
    <<65236, 7030>>, <<35283, 11232>>, <<4314, 31322>>, <<26589, 19148>>,
    <<63929, 57199>>, <<36542, 61433>>, <<6071, 48707>>, <<24752, 36565>>,
    <<54998, 41960>>, <<41425, 37758>>, <<14552, 49860>>, <<20447, 62034>>,
    <<53691, 26609>>, <<42684, 22375>>, <<16309, 1757>>, <<18610, 13899>>,
    <<55309, 11226>>, <<44810, 6988>>, <<13827, 19190>>, <<16644, 31328>>,
    <<57184, 61379>>, <<43111, 57173>>, <<12654, 36591>>, <<18025, 48761>>,
    <<52065, 45964>>, <<48230, 33562>>, <<9583, 53920>>, <<21096, 57910>>,
    <<52236, 30613>>, <<47883, 18179>>, <<8706, 5817>>, <<21765, 9775>>,
    <<50618, 15294>>, <<45757, 2856>>, <<11188, 23186>>, <<23731, 27140>>,
    <<49879, 65447>>, <<46544, 53041>>, <<11481, 40587>>, <<23518, 44573>>,
    <<39780, 49840>>, <<60515, 61990>>, <<30058, 41884>>, <<621, 37642>>,
    <<39945, 1705>>, <<60174, 13887>>, <<29191, 26501>>, <<1280, 22291>>,
    <<38335, 19074>>, <<58040, 31252>>, <<31665, 11182>>, <<3254, 6968>>,
    <<37586, 36507>>, <<58837, 48653>>, <<31964, 61367>>, <<3035, 57121>>,
    <<34515, 53972>>, <<61908, 57922>>, <<26845, 46072>>, <<8154, 33646>>,
    <<33214, 5837>>, <<63161, 9819>>, <<28592, 30689>>, <<6327, 18295>>,
    <<34824, 23270>>, <<65295, 27248>>, <<26118, 15306>>, <<4353, 2908>>,
    <<36709, 40703>>, <<63586, 44649>>, <<24939, 65491>>, <<5740, 53061>>,
    <<40970, 57976>>, <<55053, 53998>>, <<19972, 33620>>, <<14595, 46018>>,
    <<42855, 9825>>, <<53344, 5879>>, <<18793, 18253>>, <<15982, 30683>>,
    <<44753, 27210>>, <<55766, 23260>>, <<16607, 2918>>, <<14296, 15344>>,
    <<43452, 44627>>, <<57019, 40645>>, <<18354, 53119>>, <<12469, 65513>>,
    <<48573, 61980>>, <<51898, 49802>>, <<21427, 37680>>, <<9396, 41894>>,
    <<47824, 13829>>, <<52695, 1683>>, <<21726, 22313>>, <<9177, 26559>>,
    <<45926, 31278>>, <<50273, 19128>>, <<23912, 6914>>, <<10863, 11156>>,
    <<46091, 48695>>, <<49932, 36513>>, <<23045, 57115>>, <<11522, 61325>> >>

CRC32_TABLE(idx) == CRC32_TABLE_words[idx + 1]

\* char.upper() for a character up to U+00FF, as the code points of the result: the
\* letters a-z and U+00E0..U+00FE but the division sign lose 32, the micro sign
\* and y with diaeresis leave Latin-1, the sharp s becomes "SS"
str_upper(c) ==
    IF (c >= 97 /\ c <= 122) \/ (c >= 224 /\ c <= 254 /\ c # 247) THEN <<c - 32>>
    ELSE IF c = 181 THEN <<924>>
    ELSE IF c = 223 THEN <<83, 83>>
    ELSE IF c = 255 THEN <<376>>
    ELSE <<c>>

\* one character of gta_sa_hash with ASCII letters alone put in upper case
SaStep_ascii(hash_val, char) ==
    Xor32(CRC32_TABLE(Xor(hash_val[2] % 256, UpperChar(char) % 256, 8)), Shr32(hash_val, 8))

\* one character of gta_sa_hash: c_byte = ord(char.upper()) & 0xFF
SaStep(hash_val, char) ==
    Xor32(CRC32_TABLE(Xor(hash_val[2] % 256, str_upper(char)[1] % 256, 8)),
          Shr32(hash_val, 8))

\* ord(c_upper) raises TypeError when the upper case of a character is a string of
\* another length than one
gta_sa_hash_raises(key) == \E i \in 1..Len(key) : Len(str_upper(key[i])) # 1

RECURSIVE SaFrom(_, _)
SaFrom(key, hash_val) ==
    IF key = <<>> THEN hash_val ELSE SaFrom(Tail(key), SaStep(hash_val, key[1]))

\* gta_sa_hash(key): no final inversion
gta_sa_hash(key) == SaFrom(key, <<65535, 65535>>)

\* gta_sa_hash(key) as a call: the value returned, or the TypeError
gta_sa_hash_call(key) ==
    IF gta_sa_hash_raises(key) THEN [ok |-> FALSE, value |-> <<>>]
    ELSE [ok |-> TRUE, value |-> gta_sa_hash(key)]

\* str.lower() of one character, on the code points 0 .. 255 and on the
\* upper-case images 376 and 924 and the Kelvin sign 8490
str_lower(c) ==
    IF (c >= 65 /\ c <= 90) \/ (c >= 192 /\ c <= 222 /\ c # 215) THEN <<c + 32>>
    ELSE IF c = 376 THEN <<255>>
    ELSE IF c = 924 THEN <<956>>
    ELSE IF c = 8490 THEN <<107>>
    ELSE <<c>>

\* key.upper() and key.lower() of a whole string
RECURSIVE StrUpper(_)
StrUpper(key) == IF key = <<>> THEN <<>> ELSE str_upper(key[1]) \o StrUpper(Tail(key))

RECURSIVE StrLower(_)
StrLower(key) == IF key = <<>> THEN <<>> ELSE str_lower(key[1]) \o StrLower(Tail(key))

(***************************************************************************)
(* The text loaders, one key=value line at a time.  A line is the pair     *)
(* <<key, value>> the loader's pattern split it into; keys are ASCII.      *)
(***************************************************************************)
AllHex(s) == \A i \in 1..Len(s) : HexVal(s[i]) >= 0
IsWordChar(c) ==
    (c >= 48 /\ c <= 57) \/ (c >= 65 /\ c <= 90) \/ (c >= 97 /\ c <= 122) \/ c = 95
IsWord(s) == s # <<>> /\ \A i \in 1..Len(s) : IsWordChar(s[i])

\* _validate_key_static(key, 'IV')
validate_key_static_IV(key) ==
    IF StartsWith0x(key) THEN Len(key) = 10 /\ AllHex(SubSeq(key, 3, 10)) ELSE IsWord(key)

\* _load_standard_txt: the key of a line, '0x' + 8 upper-case digits for a hash
\* literal and the key in upper case otherwise
StdKey(k) ==
    IF StartsWith0x(k) /\ Len(k) = 10 /\ AllHex(SubSeq(k, 3, 10))
    THEN <<48, 120>> \o Upper(SubSeq(k, 3, 10))
    ELSE Upper(k)

\* _load_standard_txt, version IV: the key the entry is stored under
StdFinalKey(key) ==
    IF ~StartsWith0x(key) THEN <<48, 120>> \o Hex8(gta4_gxt_hash(key)) ELSE key

\* hash_tracker[current_table][final_key].add(plaintext_key_for_hash)
TrackerAdd(tr, final_key, key) ==
    DictSet(tr, final_key, (IF DictHas(tr, final_key) THEN DictGet(tr, final_key) ELSE {})
                           \cup {key})

\* _load_standard_txt from the duplicate check on; st = <<table, all_errors, hash_tracker>>
StdStore(st, line, key, final_key) ==
    IF DictHas(st[1], final_key) THEN <<st[1], Append(st[2], line), st[3]>>
    ELSE IF StartsWith0x(key) THEN <<DictSet(st[1], final_key, line[2]), st[2], st[3]>>
    ELSE IF Cardinality(DictGet(TrackerAdd(st[3], final_key, key), final_key)) > 1
    THEN <<st[1], Append(st[2], line), TrackerAdd(st[3], final_key, key)>>
    ELSE <<DictSet(st[1], final_key, line[2]), st[2], TrackerAdd(st[3], final_key, key)>>

\* _load_standard_txt(files, 'IV') on one key=value line of the current table
load_standard_txt(st, line) ==
    IF line[2] = <<>> \/ ~validate_key_static_IV(StdKey(line[1]))
    THEN <<st[1], Append(st[2], line), st[3]>>
    ELSE StdStore(st, line, StdKey(line[1]), StdFinalKey(StdKey(line[1])))

\* SAGXT.load_text: the hash of raw_key, the number itself for 1 to 8 hex digits
SaHashKey(raw_key) ==
    IF raw_key # <<>> /\ Len(raw_key) <= 8 /\ AllHex(raw_key)
    THEN HexInt(raw_key, <<0, 0>>)
    ELSE gta_sa_hash(raw_key)

\* SAGXT.load_text on one entry line; st = <<current_table, the lines warned about>>:
\* a warning is printed when the hash is present with another text, and the text
\* is stored in every case
SA_load_text(st, line, hash_key) ==
    << DictSet(st[1], hash_key, line[2]),
       IF DictHas(st[1], hash_key) /\ DictGet(st[1], hash_key) # line[2]
       THEN Append(st[2], line) ELSE st[2] >>

\* IVGXT.load_txt: hash_str of key_left, the key itself when int(key_left, 16) takes it
IvHashStr(key_left) ==
    IF Int16Takes(key_left)
    THEN key_left
    ELSE <<48, 120>> \o Hex8(gta4_gxt_hash(key_left))

\* IVGXT.load_txt on one entry line (no validate_callback): the entry is appended
IV_load_txt(table, line) == Append(table, <<IvHashStr(line[1]), line[2]>>)

(***************************************************************************)
(* rsc_header: the flag bits and the sizes they declare                    *)
(***************************************************************************)
sizeof_rsc_header == 12

\* the bit fields of rsc_flag_bits in the 32-bit flags fl, allocated from bit 0
rsc_flag_bits(fl) ==
    [ virtual1xPageFlag |-> fl[2] % 2,
      virtual2xPageFlag |-> (fl[2] \div 2) % 2,
      virtual4xPageFlag |-> (fl[2] \div 4) % 2,
      virtual8xPageFlag |-> (fl[2] \div 8) % 2,
      virtual16xPageCount |-> (fl[2] \div 16) % 128,
      virtual1xPageSize |-> (fl[2] \div 2048) % 16,
      physical1xPageFlag |-> fl[2] \div 32768,
      physical2xPageFlag |-> fl[1] % 2,
      physical4xPageFlag |-> (fl[1] \div 2) % 2,
      physical8xPageFlag |-> (fl[1] \div 4) % 2,
      physical16xPageCount |-> (fl[1] \div 8) % 128,
      physical1xPageSize |-> (fl[1] \div 1024) % 16 ]

\* rsc_flag.GetVirtualPageSize, GetPhysicalPageSize
GetVirtualPageSize(fl) == 2^(rsc_flag_bits(fl).virtual1xPageSize + 8)
GetPhysicalPageSize(fl) == 2^(rsc_flag_bits(fl).physical1xPageSize + 8)

\* GetVirtualSize with the 16x page count left out
GetVirtualSize_flags_only(fl) ==
    GetVirtualPageSize(fl)
      * (rsc_flag_bits(fl).virtual1xPageFlag * 1 + rsc_flag_bits(fl).virtual2xPageFlag * 2
         + rsc_flag_bits(fl).virtual4xPageFlag * 4 + rsc_flag_bits(fl).virtual8xPageFlag * 8)

\* rsc_flag.GetVirtualSize, GetPhysicalSize
GetVirtualSize(fl) ==
    GetVirtualPageSize(fl)
      * (rsc_flag_bits(fl).virtual1xPageFlag * 1 + rsc_flag_bits(fl).virtual2xPageFlag * 2
         + rsc_flag_bits(fl).virtual4xPageFlag * 4 + rsc_flag_bits(fl).virtual8xPageFlag * 8
         + rsc_flag_bits(fl).virtual16xPageCount * 16)

GetPhysicalSize(fl) ==
    GetPhysicalPageSize(fl)
      * (rsc_flag_bits(fl).physical1xPageFlag * 1 + rsc_flag_bits(fl).physical2xPageFlag * 2
         + rsc_flag_bits(fl).physical4xPageFlag * 4 + rsc_flag_bits(fl).physical8xPageFlag * 8
         + rsc_flag_bits(fl).physical16xPageCount * 16)

\* uncompressed_size of UnpackWhm for the header bytes header_data
uncompressed_size(header_data) ==
    GetVirtualSize(UnpackI(header_data, 8)) + GetPhysicalSize(UnpackI(header_data, 8))

\* GetVirtualPageSize() for virtual1xPageSize = 0
PageSize == 256

\* UnpackWhm: an image shorter than the size the header declares is filled with
\* zeros, a longer one is cut
Resize(image, size) ==
    IF Len(image) < size THEN image \o Zeros(size - Len(image)) ELSE SubSeq(image, 1, size)

\* UnpackWhm(input_file): <<block, the diagnostics printed>>, None given as the empty
\* block; header_data is what f.read(header_size) returned, z what zlib.decompress did
UnpackWhm(header_data, z) ==
    IF Len(header_data) < sizeof_rsc_header THEN <<<<>>, <<"too small">>>>
    ELSE IF z = <<>> THEN <<<<>>, <<"zlib error">>>>
    ELSE << Resize(z[1], uncompressed_size(header_data)),
            IF Len(z[1]) # uncompressed_size(header_data) THEN <<"size mismatch">> ELSE <<>> >>

(***************************************************************************)
(* The diagnostics of the walker                                           *)
(***************************************************************************)
\* the values of HtmlNodeType as the u32 m_eNodeType holds them
HtmlNodeType == {<<0, 0>>, <<0, 1>>, <<0, 2>>, <<0, 3>>}

\* what ExtractNodeStrings prints for the node at offset node: the warnings of its
\* children in the order of the loop, then its own when HtmlNodeType(m_eNodeType)
\* raises ValueError
RECURSIVE NodeDiagnostics(_, _)
RECURSIVE ChildrenDiagnostics(_, _)

ChildrenDiagnostics(span, blk) ==
    IF span = <<>> THEN <<>>
    ELSE (IF Locate(blk, span[1], sizeof_CHtmlNode) = -1 THEN <<>>
          ELSE NodeDiagnostics(Locate(blk, span[1], sizeof_CHtmlNode), blk))
           \o ChildrenDiagnostics(Tail(span), blk)

NodeDiagnostics(node, blk) ==
    ChildrenDiagnostics(get_span(blk, node + 12), blk)
      \o (IF UnpackI(blk, node + 4) \notin HtmlNodeType THEN <<"unknown node type">>
          ELSE <<>>)

\* what ExtractWhmStrings prints on the block UnpackWhm returned
WhmDiagnostics(blk) ==
    IF blk = <<>> THEN <<>>
    ELSE IF Len(blk) < sizeof_CHtmlDocument THEN <<"document error">>
    ELSE IF Locate(blk, UnpackI(blk, 4), sizeof_CHtmlNode) = -1 THEN <<"no body">>
    ELSE NodeDiagnostics(Locate(blk, UnpackI(blk, 4), sizeof_CHtmlNode), blk)

(***************************************************************************)
(* One file of a batch: UnpackWhm, ExtractWhmStrings, ExportText           *)
(***************************************************************************)
\* a file on the disk is [readable, header_data, inflated, writable]: whether open()
\* succeeds, its first bytes, what zlib.decompress makes of the rest, and whether
\* the .txt next to it can be opened for writing

\* UnpackWhm with zlib.error left to propagate
UnpackWhm_zlib_uncaught(f) ==
    IF ~f.readable THEN [raised |-> FALSE, block |-> <<>>, printed |-> <<"file error">>]
    ELSE IF Len(f.header_data) >= sizeof_rsc_header /\ f.inflated = <<>>
    THEN [raised |-> TRUE, block |-> <<>>, printed |-> <<>>]
    ELSE [raised |-> FALSE, block |-> UnpackWhm(f.header_data, f.inflated)[1],
          printed |-> UnpackWhm(f.header_data, f.inflated)[2]]

\* UnpackWhm(input_file) on a file of the disk: open() raises IOError for a file that
\* cannot be read, and that is caught as zlib.error is; nothing is raised
UnpackWhmOf(f) ==
    IF ~f.readable THEN [raised |-> FALSE, block |-> <<>>, printed |-> <<"file error">>]
    ELSE [raised |-> FALSE, block |-> UnpackWhm(f.header_data, f.inflated)[1],
          printed |-> UnpackWhm(f.header_data, f.inflated)[2]]

\* ExtractWhmStrings(filename, hashes) given what UnpackWhm did (u): UnpackWhm is called
\* outside the try, so what it raises propagates; the walk is inside
ExtractWhmOf(u, beyond, hs) ==
    IF u.raised THEN [raised |-> TRUE, container |-> <<>>, hashes |-> hs, printed |-> u.printed]
    ELSE [raised |-> FALSE,
          container |-> ExtractWhmStrings(u.block, u.block \o beyond, hs)[1],
          hashes |-> ExtractWhmStrings(u.block, u.block \o beyond, hs)[2],
          printed |-> u.printed \o WhmDiagnostics(u.block)]

\* ExportText(filename, container): <<the entries written, what was printed>>; an
\* IOError of open() is caught and printed
ExportText(cont, writable) ==
    IF cont = <<>> THEN <<<<>>, <<>>>>
    ELSE IF writable THEN <<cont, <<>>>>
    ELSE <<<<>>, <<"write error">>>>

\* the diagnostics of file i, each with the file it names
OfFile(i, printed) == [k \in 1..Len(printed) |-> <<printed[k], i>>]

(***************************************************************************)
(* The key hash of GXT2: joaat                                             *)
(***************************************************************************)
\* one byte of joaat: hash_val += b; hash_val += hash_val << 10; hash_val ^= hash_val >> 6
JoaatStep(hash_val, b) == Gta4Mix(Gta4Mult(Add32(hash_val, U32(b))))

RECURSIVE JoaatFrom(_, _)
JoaatFrom(bytes, hash_val) ==
    IF bytes = <<>> THEN hash_val ELSE JoaatFrom(Tail(bytes), JoaatStep(hash_val, bytes[1]))

\* joaat(key): the bytes of the key in UTF-8, then << 3, >> 11, << 15
joaat(key) == Gta4Last(Gta4Ax(Gta4Nine(JoaatFrom(Utf8Encode(key), <<0, 0>>))))

(***************************************************************************)
(* gta5_gxt2.parse_txt and the key of one entry line in the three loaders  *)
(***************************************************************************)
\* str.isdigit() on code points 0 .. 255: the digits 0-9 and the superscripts
\* two, three and one
str_isdigit(key) ==
    key # <<>> /\ \A i \in 1..Len(key) : (key[i] >= 48 /\ key[i] <= 57) \/ key[i] \in {178, 179, 185}

\* int(key) returns for a key of isdigit characters: the digits 0-9 only
IntTakes(key) == \A i \in 1..Len(key) : key[i] >= 48 /\ key[i] <= 57

\* parse_txt on one line "key=value", the key without '=', '#' and white space:
\* [raised, res], res the dict after the line
parse_txt(res, line) ==
    IF StartsWith0x(line[1])
    THEN IF Int16Takes(line[1])
         THEN [raised |-> FALSE, res |-> DictSet(res, Int16(line[1]), line[2])]
         ELSE [raised |-> FALSE, res |-> res]
    ELSE IF str_isdigit(line[1])
    THEN IF IntTakes(line[1])
         THEN [raised |-> FALSE, res |-> DictSet(res, DecInt(line[1], 0), line[2])]
         ELSE [raised |-> TRUE, res |-> res]
    ELSE [raised |-> FALSE, res |-> DictSet(res, joaat(line[1]), line[2])]

\* SAGXT.load_text: gta_sa_hash(raw_key) is called and raises
SaHashKeyRaises(raw_key) ==
    ~(raw_key # <<>> /\ Len(raw_key) <= 8 /\ AllHex(raw_key)) /\ gta_sa_hash_raises(raw_key)

\* ENTRY_RE of IVGXT takes the key: characters of [A-Za-z0-9_]
IvEntryKey(key) ==
    key # <<>> /\ \A i \in 1..Len(key) :
       \/ key[i] >= 48 /\ key[i] <= 57
       \/ key[i] >= 65 /\ key[i] <= 90
       \/ key[i] >= 97 /\ key[i] <= 122
       \/ key[i] = 95

(***************************************************************************)
(* CHtmlTextExport.ExportText: the lines written for a container          *)
(***************************************************************************)
\* Windows1252ToUtf8(str_bytes): the characters of the bytes, U+FFFD for a byte
\* windows-1252 does not define
Windows1252ToUtf8(str_bytes) ==
    [i \in 1..Len(str_bytes) |->
        IF str_bytes[i] # 0 /\ Cp1252Char(str_bytes[i]) = 0 THEN 65533
        ELSE Cp1252Char(str_bytes[i])]

\* utf8_str.replace('\n', '\\n').replace('\r', '\\r')
RECURSIVE EscapeText(_)
EscapeText(t) ==
    IF t = <<>> THEN <<>>
    ELSE (IF t[1] = 10 THEN <<92, 110>> ELSE IF t[1] = 13 THEN <<92, 114>> ELSE <<t[1]>>)
         \o EscapeText(Tail(t))

\* the lines ExportText writes for the entries of a container, after the BOM: the
\* commented original, the editable line and an empty line for each entry
RECURSIVE ExportTextLines(_)
ExportTextLines(cont) ==
    IF cont = <<>> THEN <<>>
    ELSE << <<59, 48, 120>> \o Hex8(cont[1][1]) \o <<61>>
               \o EscapeText(Windows1252ToUtf8(cont[1][2])),
            <<48, 120>> \o Hex8(cont[1][1]) \o <<61>>,
            <<>> >>
         \o ExportTextLines(Tail(cont))

(***************************************************************************)
(* ExtractNodeStrings call by call: the frames of the recursion, and the   *)
(* RecursionError of the interpreter when they are too many                *)
(***************************************************************************)
\* the deepest frame of ExtractNodeStrings whose loop can still run: the recursion
\* limit of the interpreter less the frames around the walk
RecursionLimit == 7

\* the frames the data branch (TryAppendString and the validators) needs beyond
\* those of the loop: a data node this near the limit fails inside the try
DataFrames == 4

\* the call never raises
RecursionExceeded_never(depth) == FALSE

\* a call of ExtractNodeStrings at this depth raises RecursionError
RecursionExceeded(depth) == depth > RecursionLimit

\* the frame of ExtractNodeStrings(node, ...): the span of the loop and the index of
\* the element the loop is at
FrameOf(node, blk) == [node |-> node, span |-> get_span(blk, node + 12), next |-> 1]

\* the text the m_pData of the node at an offset locates
DataText(node, blk) == LocateStr(blk, UnpackI(blk, node + sizeof_CHtmlNode))

\* the part of a frame after the loop, at a depth, for the kind of the node and the
\* text of a data node: the text is offered to TryAppendString, or the
\* RecursionError raised inside the try is printed; [st, printed]
OwnAtDepth(kind, view, st, depth) ==
    IF kind \notin HtmlNodeType
    THEN [st |-> st, printed |-> <<"unknown node type">>]
    ELSE IF kind # Node_HtmlDataNode THEN [st |-> st, printed |-> <<>>]
    ELSE IF depth > RecursionLimit - DataFrames
    THEN [st |-> st, printed |-> <<"data node error">>]
    ELSE [st |-> TryAppendString(st, view), printed |-> <<>>]

(***************************************************************************)
(* WhmBatchWorker._process_single_whm: the path of the ledger              *)
(***************************************************************************)
\* ".txt" and "_"
SuffixTxt == <<46, 116, 120, 116>>
Underscore == <<95>>

\* str(n) of a number n >= 0
RECURSIVE StrOfNat(_)
StrOfNat(n) == IF n < 10 THEN <<48 + n>> ELSE StrOfNat(n \div 10) \o <<48 + (n % 10)>>

\* PurePath.stem of a file name with a suffix: the characters before the last dot
PathStem(name) ==
    SubSeq(name, 1, (CHOOSE i \in 1..Len(name) :
                        name[i] = 46 /\ \A j \in (i + 1)..Len(name) : name[j] # 46) - 1)

\* file_path.with_suffix(".txt")
WithSuffixTxt(name) == PathStem(name) \o SuffixTxt

\* file_path.parent / f"{original_stem}_{counter}.txt"
NumberedTxt(original_stem, n) == original_stem \o Underscore \o StrOfNat(n) \o SuffixTxt

\* Path.exists() of a name in the folder
PathExists(files, name) == \E f \in files : f[1] = name

(***************************************************************************)
(* WhmBatchToolDialog: the worker of a batch job and the handlers          *)
(***************************************************************************)
\* QThread.isRunning() that is never true
isRunning_never(ws, w) == FALSE

\* QThread.isRunning() of worker w: from start() until run has returned
isRunning(ws, w) == ws[w].at # "ended"

\* "self.worker_thread and self.worker_thread.isRunning()"
WorkerBusy(wt, ws) == wt # <<>> /\ isRunning(ws, wt[1])

\* the streams after "sys.stdout = self.log_emitter; sys.stderr = self.log_emitter"
\* and after "sys.stdout = self.original_stdout; sys.stderr = self.original_stderr"
ToLogEmitter == <<"log_emitter", "log_emitter">>
ToOriginal == <<"original", "original">>

\* WhmBatchWorker(mode, ...) after start()
NewWorker(mode) == [mode |-> mode, at |-> "run", outcome |-> "none", emitted |-> 0]

(***************************************************************************)
(* GXTEditorApp.open_gxt                                                   *)
(***************************************************************************)
hasTables(ver) == ver # "III"

\* reader.parseTKeyTDat(mm) for the reader getReader(version) returns
parseTKeyTDat(ver, bs, pos) ==
    IF ver = "SA" THEN SA_parseTKeyTDat(bs, pos)
    ELSE IF ver = "IV" THEN IV_parseTKeyTDat(bs, pos)
    ELSE III_parseTKeyTDat(bs, pos)

\* mm.seek(offset): the position is clamped to the file length
Seek(bs, off) == IF Fits(off) THEN Min(Len(bs), ToInt(off)) ELSE Len(bs)

\* the loop of open_gxt over the table directory: [ok, data]; r is what
\* reader.parseTKeyTDat(mm) gave for the first table of tabs
RECURSIVE OpenTables(_, _, _, _)
OpenTable(ver, bs, tabs, d, r) ==
    IF ~r.ok THEN [ok |-> FALSE, data |-> d]
    ELSE OpenTables(ver, bs, Tail(tabs), DictSet(d, Upper(tabs[1][1]), DictOf(r.entries)))

OpenTables(ver, bs, tabs, d) ==
    IF tabs = <<>> THEN [ok |-> TRUE, data |-> d]
    ELSE OpenTable(ver, bs, tabs, d, parseTKeyTDat(ver, bs, Seek(bs, tabs[1][2])))

\* open_gxt for a version with tables, t what reader.parseTables(mm) gave
ReadTabled(ver, bs, t) ==
    IF ~t.ok THEN [ok |-> FALSE, data |-> <<>>] ELSE OpenTables(ver, bs, t.tables, <<>>)

\* open_gxt for a version without tables, r what reader.parseTKeyTDat(mm) gave
ReadFlat(r) ==
    IF ~r.ok THEN [ok |-> FALSE, data |-> <<>>]
    ELSE [ok |-> TRUE, data |-> <<<<NameMAIN, DictOf(r.entries)>>>>]

\* the body of open_gxt after the version is known: [ok, data]
ReadGxt(ver, bs) ==
    IF hasTables(ver)
    THEN ReadTabled(ver, bs, IF ver = "IV" THEN IV_parseTables(bs, 0) ELSE parseTables(bs, 0))
    ELSE ReadFlat(parseTKeyTDat(ver, bs, 0))

\* GXTEditorApp.open_gxt(path): an unknown version leaves the document alone; a failure
\* after self.data.clear() leaves what was read so far and the old version
OpenGxt ==
    /\ pc = "saved"
    /\ \E ver \in {getVersion(file)} :
          IF ver = "None"
          THEN /\ err' = TRUE
               /\ UNCHANGED <<data, version>>
          ELSE \E r \in {ReadGxt(ver, file)} :
                  /\ data' = r.data
                  /\ err' = ~r.ok
                  /\ version' = IF r.ok THEN ver ELSE version
    /\ pc' = "opened"
    /\ UNCHANGED <<importer, m_GxtData, file, whm, deref, rsc, job, hashing, frames, outputs,
                   dialog>>

\* GXTEditorApp.open_gxt2(path): the table is named after the file, here GLOBAL; a
\* failure of parse_gxt2 is reported and leaves the document alone
OpenGxt2 ==
    /\ pc = "saved"
    /\ \E r \in {parse_gxt2(file)} :
          IF r.ok
          THEN /\ data' = <<<<<<71, 76, 79, 66, 65, 76>>,
                             [i \in 1..Len(r.strings) |->
                                 <<<<48, 120>> \o Hex8(r.strings[i][1]), r.strings[i][2]>>]>>>>
               /\ version' = "V"
               /\ err' = FALSE
          ELSE /\ err' = TRUE
               /\ UNCHANGED <<data, version>>
    /\ pc' = "opened_gxt2"
    /\ UNCHANGED <<importer, m_GxtData, file, whm, deref, rsc, job, hashing, frames, outputs,
                   dialog>>

(***************************************************************************)
(* SA: write with SAGXT.save_as_gxt, read with open_gxt                    *)
(***************************************************************************)
\* sequences over S of length at most n
SeqsUpTo(S, n) == UNION {[1..k -> S] : k \in 0..n}

\* the keys of a dict are distinct
DistinctKeys(d) == \A i, j \in 1..Len(d) : d[i][1] = d[j][1] => i = j

\* table names: MAIN, AB, TKEY, XTKEY
TableNames == {NameMAIN, <<65, 66>>, TagTKEY, <<88>> \o TagTKEY}

\* hashes 0x00000100, 0x00000002, 0x80000000; texts "A\u00e9", "", "\u4e2d\U0001f600"
HashPool == {<<0, 256>>, <<0, 2>>, <<32768, 0>>}
TextPool == {<<65, 233>>, <<>>, <<20013, 128512>>}

\* the entries of multi-table documents (one text per hash), and of single tables
EntryPool == {<<<<0, 256>>, <<65, 233>>>>, <<<<0, 2>>, <<>>>>, <<<<32768, 0>>, <<20013, 128512>>>>}
FullEntryPool == HashPool \X TextPool

TablePool == {t \in SeqsUpTo(EntryPool, MaxEntries) : DistinctKeys(t)}
DocPool == {d \in SeqsUpTo(TableNames \X TablePool, MaxTables) : DistinctKeys(d)}

InitSA ==
    /\ pc = "init"
    /\ m_GxtData \in DocPool
    /\ file = <<>>
    /\ version = "SA"
    /\ data = <<>>
    /\ err = FALSE
    /\ IdleImporter
    /\ IdleDeref
    /\ IdleRsc
    /\ IdleJob
    /\ IdleHashing
    /\ IdleFrames
    /\ IdleOutputs
    /\ IdleDialog
    /\ IdleWhm

\* SAGXT.save_as_gxt(path)
SaveAsGxtSA ==
    /\ pc = "init"
    /\ version = "SA"
    /\ file' = SAGXT_save_as_gxt(m_GxtData)
    /\ pc' = "saved"
    /\ UNCHANGED <<importer, m_GxtData, version, data, err, whm, deref, rsc, job, hashing, frames,
                   outputs, dialog>>

NextSA == SaveAsGxtSA \/ OpenGxt

SpecSA == InitSA /\ [][NextSA]_vars

(***************************************************************************)
(* IV: write with generate_binary, read with open_gxt                      *)
(***************************************************************************)
\* an entry of m_Data: the hash as the string '0x%08X', and the text
IvEntry(e) == <<<<48, 120>> \o Hex8(e[1]), e[2]>>
IvTable(t) == [i \in 1..Len(t) |-> IvEntry(t[i])]
IvDoc(d) == [i \in 1..Len(d) |-> <<d[i][1], IvTable(d[i][2])>>]

InitIV ==
    /\ pc = "init"
    /\ \E d \in DocPool : m_GxtData = IvDoc(d)
    /\ file = <<>>
    /\ version = "IV"
    /\ data = <<>>
    /\ err = FALSE
    /\ IdleImporter
    /\ IdleDeref
    /\ IdleRsc
    /\ IdleJob
    /\ IdleHashing
    /\ IdleFrames
    /\ IdleOutputs
    /\ IdleDialog
    /\ IdleWhm

\* generate_binary(m_Data, output_path)
SaveAsGxtIV ==
    /\ pc = "init"
    /\ version = "IV"
    /\ file' = generate_binary(m_GxtData)
    /\ pc' = "saved"
    /\ UNCHANGED <<importer, m_GxtData, version, data, err, whm, deref, rsc, job, hashing, frames,
                   outputs, dialog>>

NextIV == SaveAsGxtIV \/ OpenGxt

SpecIV == InitIV /\ [][NextIV]_vars

(***************************************************************************)
(* III: write with LCGXT.save_as_gxt, read with open_gxt                   *)
(***************************************************************************)
\* keys K1, ABCDEFG, TDAT, TKEY
KeyPool == {<<75, 49>>, <<65, 66, 67, 68, 69, 70, 71>>, TagTDAT, TagTKEY}

\* the mappings key -> text the III writer is given
LcTextDocs == {d \in SeqsUpTo(KeyPool \X TextPool, MaxEntries) : DistinctKeys(d)}

\* LCGXT.m_GxtData for a mapping key -> text: the values as UTF-16 units
LcData(d) == [i \in 1..Len(d) |-> <<d[i][1], utf8_to_utf16(d[i][2])>>]

InitIII ==
    /\ pc = "init"
    /\ \E d \in LcTextDocs : m_GxtData = LcData(d)
    /\ file = <<>>
    /\ version = "III"
    /\ data = <<>>
    /\ err = FALSE
    /\ IdleImporter
    /\ IdleDeref
    /\ IdleRsc
    /\ IdleJob
    /\ IdleHashing
    /\ IdleFrames
    /\ IdleOutputs
    /\ IdleDialog
    /\ IdleWhm

\* LCGXT.save_as_gxt(path): nothing is written for an empty mapping
SaveAsGxtIII ==
    /\ pc = "init"
    /\ version = "III"
    /\ file' = IF m_GxtData = <<>> THEN file ELSE LCGXT_save_as_gxt(m_GxtData)
    /\ pc' = "saved"
    /\ UNCHANGED <<importer, m_GxtData, version, data, err, whm, deref, rsc, job, hashing, frames,
                   outputs, dialog>>

NextIII == SaveAsGxtIII \/ OpenGxt

SpecIII == InitIII /\ [][NextIII]_vars

(***************************************************************************)
(* V: write with save_gxt2, read with parse_gxt2, write again              *)
(***************************************************************************)
StringsPool == {t \in SeqsUpTo(FullEntryPool, MaxEntries) : DistinctKeys(t)}

InitV ==
    /\ pc = "init"
    /\ m_GxtData \in StringsPool
    /\ file = <<>>
    /\ version = "V"
    /\ data = <<>>
    /\ err = FALSE
    /\ IdleImporter
    /\ IdleDeref
    /\ IdleRsc
    /\ IdleJob
    /\ IdleHashing
    /\ IdleFrames
    /\ IdleOutputs
    /\ IdleDialog
    /\ IdleWhm

\* save_gxt2(strings, path), of the document and then of what parse_gxt2 returned:
\* raises for an empty mapping, and writes nothing
SaveGxt2 ==
    /\ pc \in {"init", "opened"}
    /\ version = "V"
    /\ LET strings == IF pc = "init" THEN m_GxtData ELSE data
       IN IF strings = <<>>
          THEN err' = TRUE /\ UNCHANGED file
          ELSE err' = err /\ file' = save_gxt2(strings)
    /\ pc' = IF pc = "init" THEN "saved" ELSE "resaved"
    /\ UNCHANGED <<importer, m_GxtData, version, data, whm, deref, rsc, job, hashing, frames,
                   outputs, dialog>>

\* parse_gxt2(path)
ParseGxt2 ==
    /\ pc = "saved"
    /\ version = "V"
    /\ LET r == parse_gxt2(file)
       IN IF r.ok
          THEN data' = r.strings /\ err' = err
          ELSE err' = TRUE /\ UNCHANGED data
    /\ pc' = "opened"
    /\ UNCHANGED <<importer, m_GxtData, file, version, whm, deref, rsc, job, hashing, frames,
                   outputs, dialog>>

NextV == SaveGxt2 \/ ParseGxt2

SpecV == InitV /\ [][NextV]_vars

\* the pairs of a dict as a set

(***************************************************************************)
(* SA and V together: the files the two hash-sorting writers produce       *)
(***************************************************************************)
InitSorted == InitSA \/ InitV

NextSorted == SaveAsGxtSA \/ SaveGxt2 \/ ParseGxt2

SpecSorted == InitSorted /\ [][NextSorted]_vars

(***************************************************************************)
(* The ledger: LoadText on the lines of an edited ledger                   *)
(***************************************************************************)
MaxLines == 2

\* original texts "A" and "A " as the exporter found them, hashed with FNV-1a
Originals == {<<65>>, <<65, 32>>}

\* what an editor may leave after '=': "A", "A ", "Z", "", " \t", "\n" escaped, a
\* character windows-1252 lacks, and a character it has
Translations ==
    {<<65>>, <<65, 32>>, <<90>>, <<>>, <<32, 9>>, <<92, 110>>, <<20013>>, <<233>>}

\* the editable line 0xHHHHHHHH=text
EditLine(h, t) == <<48, 120>> \o Hex8(h) \o <<61>> \o t

\* editable lines, the commented original lines, an empty line, an unrecognised line
LinePool ==
    {EditLine(fnv1a_32(s), t) : s \in Originals, t \in Translations}
    \cup {<<59>> \o EditLine(fnv1a_32(s), s) : s \in Originals}
    \cup {<<>>, <<91, 65, 93>>}

InitLedger ==
    /\ pc = "ledger"
    /\ ledger \in SeqsUpTo(LinePool, MaxLines)
    /\ result = <<>>
    /\ results = <<>>
    /\ file = <<>>
    /\ data = <<>>
    /\ err = FALSE
    /\ IdleImporter
    /\ IdleDeref
    /\ IdleRsc
    /\ IdleJob
    /\ IdleHashing
    /\ IdleFrames
    /\ IdleOutputs
    /\ IdleDialog
    /\ IdleGxt
    /\ IdleWalker
    /\ IdleBatch

\* CHtmlTextExport.LoadText(filename)
LoadLedger ==
    /\ pc = "ledger"
    /\ result' = LoadText(ledger)
    /\ pc' = "loaded"
    /\ UNCHANGED <<importer, ledger, results, walker, batch, file, data, err, gxt, deref, rsc, job,
                   hashing, frames, outputs, dialog>>

SpecLedger == InitLedger /\ [][LoadLedger]_vars

(***************************************************************************)
(* The database: GenerateDataBase, ParseWhmTable, open_dat                 *)
(***************************************************************************)
MaxDbEntries == 2
MaxBlob == 3

\* entries as LoadText gives them: texts of one and more bytes, with a line break,
\* and the empty text; two entries may carry the same hash
DbTextPool == {<<65>>, <<233, 10>>, <<20013>>, <<>>}
DbEntryPool == {<<h, t>> : h \in {<<0, 7>>, <<33000, 9>>}, t \in DbTextPool}

\* bytes of a blob: a letter, NUL, a byte that is no UTF-8, a byte windows-1252 lacks
BlobBytes == {65, 0, 233, 129}

\* offsets of a table row: inside, at the end of and beyond the blobs
OffsetPool == {<<0, 0>>, <<0, 1>>, <<0, 3>>, <<65535, 65535>>}

\* rows of a table: one hash with every offset, and a second hash
RowPool == {<<<<0, 7>>, o>> : o \in OffsetPool} \cup {<<<<33000, 9>>, <<0, 0>>>>}

\* the rows of a table, each <<hash, offset>>, as bytes
RECURSIVE FlatRows(_)
FlatRows(rows) ==
    IF rows = <<>> THEN <<>>
    ELSE U32LE(rows[1][1]) \o U32LE(rows[1][2]) \o FlatRows(Tail(rows))

\* a database whose table has one row per (hash, offset) and whose blob-size field
\* declares size
DbFile(rows, size, blob) ==
    PackI(Len(rows))
      \o FlatRows(rows)
      \o U32LE(size) \o blob

\* databases truncated in the header, the table or the blob-size field
TruncatedPool == {<<1, 0>>, PackI(1) \o <<7, 0, 0, 0>>, PackI(1) \o PackI(7) \o PackI(0) \o <<0>>}

InitDb ==
    /\ \/ /\ pc = "loaded"
          /\ result \in SeqsUpTo(DbEntryPool, MaxDbEntries)
          /\ file = <<>>
       \/ /\ pc = "db"
          /\ result = <<>>
          /\ \/ \E rows \in SeqsUpTo(RowPool, MaxDbEntries),
                   blob \in SeqsUpTo(BlobBytes, MaxBlob),
                   size \in {<<0, 1>>, <<0, 3>>, <<65535, 65535>>} :
                   file = DbFile(rows, size, blob)
             \/ file \in TruncatedPool
    /\ ledger = <<>>
    /\ results = <<>>
    /\ data = <<>>
    /\ err = FALSE
    /\ IdleImporter
    /\ IdleDeref
    /\ IdleRsc
    /\ IdleJob
    /\ IdleHashing
    /\ IdleFrames
    /\ IdleOutputs
    /\ IdleDialog
    /\ IdleGxt
    /\ IdleWalker
    /\ IdleBatch

\* CHtmlTextExport.GenerateDataBase(input_folder, output_file)
GenerateDb ==
    /\ pc = "loaded"
    /\ file' = GenerateDataBase(result)
    /\ pc' = "db"
    /\ UNCHANGED <<importer, ledger, result, results, walker, batch, data, err, gxt, deref, rsc, job,
                   hashing, frames, outputs, dialog>>

\* CHtmlTextExport.ParseWhmTable(input_file, output_file)
ParseDb ==
    /\ pc = "db"
    /\ \E r \in {ParseWhmTable(file)} :
          /\ err' = ~r.ok
          /\ results' = IF r.ok THEN r.results ELSE results
    /\ pc' = "parsed"
    /\ UNCHANGED <<importer, ledger, result, walker, batch, file, data, gxt, deref, rsc, job,
                   hashing, frames, outputs, dialog>>

\* GXTEditorApp.open_dat(path)
OpenDat ==
    /\ pc = "db"
    /\ \E r \in {open_dat(file)} :
          /\ err' = ~r.ok
          /\ data' = IF r.ok THEN <<<<whm_table, DatDict(r.results, <<>>)>>>> ELSE data
          /\ version' = IF r.ok THEN "IV" ELSE version
    /\ pc' = "opened"
    /\ UNCHANGED <<importer, ledger, result, results, walker, batch, file, m_GxtData, deref, rsc, job,
                   hashing, frames, outputs, dialog>>

NextDb == GenerateDb \/ ParseDb \/ OpenDat

SpecDb == InitDb /\ [][NextDb]_vars

(***************************************************************************)
(* The walker: ExtractWhmStrings on an arena                               *)
(***************************************************************************)
MaxKids == 2

\* a pgPtr _value with tag t and offset o, as bytes
Ptr(t, o) == U32LE(<<t * 4096 + o \div 65536, o % 65536>>)

\* a CHtmlNode: vtbl, m_eNodeType, m_pParentNode, m_children (pointer, count,
\* size), m_renderState
NodeBytes(type, children, count, size) ==
    Zeros(4) \o U32LE(type) \o Zeros(4)
      \o Ptr(Cpu_Type, children) \o U16LE(count) \o U16LE(size) \o Zeros(196)

\* a page is a tree <<node type, text, children>>; it is laid out from offset base
\* as the node, its m_pData, its text with a NUL, its children pointers, its
\* children
RECURSIVE TreeSize(_)
RECURSIVE KidsSize(_)
RECURSIVE TreeBytes(_, _, _)
RECURSIVE KidPtrs(_, _)
RECURSIVE KidsBytes(_, _)

KidsSize(kids) == IF kids = <<>> THEN 0 ELSE TreeSize(kids[1]) + KidsSize(Tail(kids))

TreeSize(tree) ==
    sizeof_CHtmlNode + 4 + Len(tree[2]) + 1 + 4 * Len(tree[3]) + KidsSize(tree[3])

KidPtrs(kids, at) ==
    IF kids = <<>> THEN <<>>
    ELSE Ptr(Cpu_Type, at) \o KidPtrs(Tail(kids), at + TreeSize(kids[1]))

KidsBytes(kids, at) ==
    IF kids = <<>> THEN <<>>
    ELSE TreeBytes(kids[1], at, Len(kids[1][3])) \o KidsBytes(Tail(kids), at + TreeSize(kids[1]))

TreeBytes(tree, base, count) ==
    NodeBytes(tree[1], base + 221 + Len(tree[2]), count, Len(tree[3]))
      \o Ptr(Cpu_Type, base + 220) \o tree[2] \o <<0>>
      \o KidPtrs(tree[3], base + 221 + Len(tree[2]) + 4 * Len(tree[3]))
      \o KidsBytes(tree[3], base + 221 + Len(tree[2]) + 4 * Len(tree[3]))

\* the image of a page: a CHtmlDocument whose m_pBody has tag t, then the tree; the
\* body's children array declares count elements and Len(children) as its size
Image(tree, t, count) ==
    Zeros(4) \o Ptr(t, sizeof_CHtmlDocument) \o Zeros(36)
      \o TreeBytes(tree, sizeof_CHtmlDocument, count)

\* the arena of a page whose header declares the pages that hold the image
Arena(tree, t, count) ==
    Resize(Image(tree, t, count),
           PageSize * ((sizeof_CHtmlDocument + TreeSize(tree) + PageSize - 1) \div PageSize))

\* the arena of a page whose header declares one page less
CutArena(tree) ==
    Resize(Image(tree, Cpu_Type, Len(tree[3])),
           PageSize * ((sizeof_CHtmlDocument + TreeSize(tree) - 1) \div PageSize))

\* an arena of one page that ends with the CHtmlNode of a data node: its m_pData
\* lies beyond the block; the text "Hi" sits in the document at offset 12
ShortArena ==
    Zeros(4) \o Ptr(Cpu_Type, PageSize - sizeof_CHtmlNode) \o Zeros(4) \o <<72, 105, 0>>
      \o Zeros(PageSize - sizeof_CHtmlNode - 15) \o NodeBytes(Node_HtmlDataNode, 0, 0, 0)

\* what the four bytes after the block may hold: nothing, or a pointer to offset 12
BeyondPool == {Zeros(4), Ptr(Cpu_Type, 12)}

\* texts: "Hi", the URL "a.b", the empty text, one accented letter
Hi == <<72, 105>>
WalkTexts == {Hi, <<97, 46, 98>>, <<>>, <<201>>}

\* node types: container, data node, a value outside HtmlNodeType
WalkTypes == {<<0, 0>>, Node_HtmlDataNode, <<0, 7>>}

\* children: leaves, and a container with one data leaf "Hi"
KidPool ==
    {<<k, s, <<>>>> : k \in WalkTypes, s \in {Hi, <<97, 46, 98>>}}
      \cup {<<Node_HtmlDataNode, <<201>>, <<>>>>,
            <<<<0, 0>>, <<>>, <<<<Node_HtmlDataNode, Hi, <<>>>>>>>>}

PagePool ==
    {<<k, s, kids>> : k \in {<<0, 0>>, Node_HtmlDataNode}, s \in {Hi, <<>>},
                      kids \in SeqsUpTo(KidPool, MaxKids)}

InitArena ==
    /\ pc = "arena"
    /\ \/ /\ page \in PagePool
          /\ \/ block = Arena(page, Cpu_Type, Len(page[3]))
             \/ block = Arena(page, Cpu_Type, 0)
             \/ block = Arena(page, 6, Len(page[3]))
             \/ block = CutArena(page)
       \/ /\ page = <<Node_HtmlDataNode, Hi, <<>>>>
          /\ block \in {ShortArena, <<>>, Zeros(PageSize)}
    /\ hashes \in {{}, {fnv1a_32(Hi)}}
    /\ container = <<>>
    /\ ptr = <<>>
    /\ IdleBatch
    /\ ledger = <<>> /\ result = <<>> /\ results = <<>>
    /\ file = <<>>
    /\ data = <<>>
    /\ err = FALSE
    /\ IdleImporter
    /\ IdleDeref
    /\ IdleRsc
    /\ IdleJob
    /\ IdleHashing
    /\ IdleFrames
    /\ IdleOutputs
    /\ IdleDialog
    /\ IdleGxt

\* CHtmlTextExport.ExtractWhmStrings(filename, hashes)
ExtractWhm ==
    /\ pc = "arena"
    /\ \E beyond \in BeyondPool :
          \E st \in {ExtractWhmStrings(block, block \o beyond, hashes)} :
             /\ container' = st[1]
             /\ hashes' = st[2]
    /\ stderr' = stderr \o WhmDiagnostics(block)
    /\ pc' = "extracted"
    /\ UNCHANGED <<importer, block, page, ptr, batch, ledger, result, results, file, data, err,
                   gxt, deref, inflated, job, hashing, frames, outputs, dialog>>

SpecArena == InitArena /\ [][ExtractWhm]_vars

(***************************************************************************)
(* The filter: TryAppendString on a candidate                              *)
(***************************************************************************)
MaxLen == 4

\* bytes of a candidate: a letter, a digit, '.', a space, an accented letter
FilterBytes == {65, 49, 46, 32, 201}

InitFilter ==
    /\ pc = "candidate"
    /\ ptr \in SeqsUpTo(FilterBytes, MaxLen)
    /\ hashes = {}
    /\ container = <<>>
    /\ block = <<>>
    /\ page = <<>>
    /\ IdleBatch
    /\ ledger = <<>> /\ result = <<>> /\ results = <<>>
    /\ file = <<>>
    /\ data = <<>>
    /\ err = FALSE
    /\ IdleImporter
    /\ IdleDeref
    /\ IdleRsc
    /\ IdleJob
    /\ IdleHashing
    /\ IdleFrames
    /\ IdleOutputs
    /\ IdleDialog
    /\ IdleGxt

\* CHtmlTextExport.TryAppendString(container, ptr, hashes)
TryAppend ==
    /\ pc = "candidate"
    /\ \E st \in {TryAppendString(<<container, hashes>>, ptr)} :
          /\ container' = st[1]
          /\ hashes' = st[2]
    /\ pc' = "tried"
    /\ UNCHANGED <<importer, block, page, ptr, batch, ledger, result, results, file, data, err, gxt, deref, rsc, job,
                   hashing, frames, outputs, dialog>>

SpecFilter == InitFilter /\ [][TryAppend]_vars

(***************************************************************************)
(* Deduplication: TryAppendString calls that share one hash set            *)
(***************************************************************************)
MaxCalls == 3

\* candidates: "Hi", "zinke" and "altarage" (two texts with the FNV-1a hash
\* 0xE460D8B6), the URL "a.b", the empty string
Zinke == <<122, 105, 110, 107, 101>>
Altarage == <<97, 108, 116, 97, 114, 97, 103, 101>>
CandidatePool == {Hi, Zinke, Altarage, <<97, 46, 98>>, <<>>}

\* ExportHtml keeps one hash set for the run; _process_single_whm gives each file a
\* new one
InitDedup ==
    /\ pc \in {"export", "worker"}
    /\ hashes = {}
    /\ container = <<>>
    /\ block = <<>> /\ page = <<>> /\ ptr = <<>>
    /\ IdleBatch
    /\ ledger = <<>> /\ result = <<>> /\ results = <<>>
    /\ file = <<>>
    /\ data = <<>>
    /\ err = FALSE
    /\ IdleImporter
    /\ IdleDeref
    /\ IdleRsc
    /\ IdleJob
    /\ IdleHashing
    /\ IdleFrames
    /\ IdleOutputs
    /\ IdleDialog
    /\ IdleGxt

\* one call self.TryAppendString(container, data_bytes, hashes) of the walk
TryAppendNext ==
    /\ pc \in {"export", "worker"}
    /\ Len(calls) + Len(exported) < MaxCalls
    /\ \E v \in CandidatePool :
          /\ \E st \in {TryAppendString(<<container, hashes>>, v)} :
                /\ container' = st[1]
                /\ hashes' = st[2]
          /\ calls' = Append(calls, v)
    /\ UNCHANGED <<importer, pc, exported, block, page, ptr, ledger, result, results, file, data, err, gxt, deref, rsc, job,
                   hashing, frames, outputs, dialog>>

\* ExportHtml: the file's container is written, the next file starts with a new
\* container and the same hashes
NextFileExport ==
    /\ pc = "export"
    /\ container # <<>>
    /\ exported' = exported \o container
    /\ container' = <<>>
    /\ UNCHANGED <<importer, pc, hashes, calls, block, page, ptr, ledger, result, results, file, data, err, gxt, deref, rsc, job,
                   hashing, frames, outputs, dialog>>

\* _process_single_whm: the file's container is written, the next file starts with
\* a new container and set()
NextFileWorker ==
    /\ pc = "worker"
    /\ container # <<>>
    /\ exported' = exported \o container
    /\ container' = <<>>
    /\ hashes' = {}
    /\ calls' = <<>>
    /\ UNCHANGED <<importer, pc, block, page, ptr, ledger, result, results, file, data, err, gxt, deref, rsc, job,
                   hashing, frames, outputs, dialog>>

NextDedup == TryAppendNext \/ NextFileExport \/ NextFileWorker

SpecDedup == InitDedup /\ [][NextDedup]_vars

(***************************************************************************)
(* Text import: the lines of one table, given to one of the three loaders  *)
(***************************************************************************)
MaxContent == 3

\* "aqaa" and "elue" have the same gta4_gxt_hash, 0x18BED31F; "AQAA"; "b"; "a-b"
Aqaa == <<97, 113, 97, 97>>
Elue == <<101, 108, 117, 101>>
IvKeyPool == {Aqaa, Elue, <<65, 81, 65, 65>>, <<48, 120>> \o Hex8(gta4_gxt_hash(Aqaa)),
              <<98>>, <<97, 45, 98>>}

\* "hi", "HI", the hash of "hi" as 8 hex digits, "AB" and "0AB", "go"
SaKeyPool == {<<104, 105>>, <<72, 73>>, Hex8(gta_sa_hash(<<104, 105>>)),
              <<65, 66>>, <<48, 65, 66>>, <<103, 111>>}

\* the texts "x", "y" and the empty text
ValuePool == {<<120>>, <<121>>, <<>>}

\* the table [MAIN] of a document, and the document with that table replaced
MainOf(doc) == doc[1][2]
WithMain(table) == <<<<NameMAIN, table>>>>

\* the loader has read the header [MAIN] and no entry yet
InitImport ==
    /\ pc \in {"std", "sa", "iv"}
    /\ version = (IF pc = "sa" THEN "SA" ELSE "IV")
    /\ data = (IF pc = "std" THEN WithMain(<<>>) ELSE <<>>)
    /\ m_GxtData = (IF pc = "std" THEN <<>> ELSE WithMain(<<>>))
    /\ file = <<>>
    /\ err = FALSE
    /\ IdleImporter
    /\ IdleDeref
    /\ IdleRsc
    /\ IdleJob
    /\ IdleHashing
    /\ IdleFrames
    /\ IdleOutputs
    /\ IdleDialog
    /\ IdleWhm

\* GXTEditorApp._load_standard_txt: one more key=value line
LoadStandardLine ==
    /\ pc = "std"
    /\ Len(content) < MaxContent
    /\ \E line \in IvKeyPool \X ValuePool :
          /\ content' = Append(content, line)
          /\ \E st \in {load_standard_txt(<<MainOf(data), all_errors, hash_tracker>>, line)} :
                /\ data' = WithMain(st[1])
                /\ all_errors' = st[2]
                /\ hash_tracker' = st[3]
    /\ UNCHANGED <<pc, file, err, gxt, whm, deref, rsc, job, hashing, frames, outputs, dialog>>

\* SAGXT.load_text: one more entry line
LoadTextLineSA ==
    /\ pc = "sa"
    /\ Len(content) < MaxContent
    /\ \E line \in SaKeyPool \X ValuePool :
          /\ content' = Append(content, line)
          /\ \E st \in {SA_load_text(<<MainOf(m_GxtData), all_errors>>, line, SaHashKey(line[1]))} :
                /\ m_GxtData' = WithMain(st[1])
                /\ all_errors' = st[2]
    /\ UNCHANGED <<pc, file, version, data, err, hash_tracker, whm, deref, rsc, job, hashing,
                   frames, outputs, dialog>>

\* IVGXT.load_txt: one more entry line
LoadTxtLineIV ==
    /\ pc = "iv"
    /\ Len(content) < MaxContent
    /\ \E line \in (IvKeyPool \ {<<97, 45, 98>>}) \X ValuePool :
          /\ content' = Append(content, line)
          /\ m_GxtData' = WithMain(IV_load_txt(MainOf(m_GxtData), line))
    /\ UNCHANGED <<pc, file, version, data, err, all_errors, hash_tracker, whm, deref, rsc, job,
                   hashing, frames, outputs, dialog>>

NextImport == LoadStandardLine \/ LoadTextLineSA \/ LoadTxtLineIV

SpecImport == InitImport /\ [][NextImport]_vars

(***************************************************************************)
(* Truncated files: parseTKeyTDat of each version reader on every prefix   *)
(* of a TKEY block followed by a TDAT block                                *)
(***************************************************************************)
Versions == {"III", "VC", "SA", "IV"}

\* the value "A" with its terminator: bytes for SA, UTF-16 units for the others
BlockValue(ver) == IF ver = "SA" THEN <<65, 0>> ELSE <<65, 0, 0, 0>>

\* row k of the TKEY block: the offset of value k, then the hash k (SA, IV) or the
\* key "K<k>" on 8 bytes (III, VC)
BlockRow(ver, k) ==
    PackI((k - 1) * Len(BlockValue(ver)))
    \o (IF ver \in {"SA", "IV"} THEN PackI(k) ELSE Ljust8(<<75, 48 + k>>))

RECURSIVE BlockRows(_, _)
BlockRows(ver, n) == IF n = 0 THEN <<>> ELSE BlockRows(ver, n - 1) \o BlockRow(ver, n)

RECURSIVE BlockValues(_, _)
BlockValues(ver, n) == IF n = 0 THEN <<>> ELSE BlockValues(ver, n - 1) \o BlockValue(ver)

\* a TKEY block of n rows and its TDAT block, the TDAT size declared as datSize
BlockImage(ver, n, datSize) ==
    TagTKEY \o PackI(Len(BlockRows(ver, n))) \o BlockRows(ver, n)
    \o TagTDAT \o PackI(datSize) \o BlockValues(ver, n)

\* the whole image, each of its prefixes, and the image declaring more TDAT bytes
\* than the file holds
BlockFiles(ver, n) ==
    {SubSeq(BlockImage(ver, n, n * Len(BlockValue(ver))), 1, k) :
        k \in 0..Len(BlockImage(ver, n, n * Len(BlockValue(ver))))}
    \cup {BlockImage(ver, n, n * Len(BlockValue(ver)) + 2)}

InitBlocks ==
    /\ pc = "blocks"
    /\ version \in Versions
    /\ \E n \in 0..MaxEntries : file \in BlockFiles(version, n)
    /\ m_GxtData = <<>>
    /\ data = <<>>
    /\ err = FALSE
    /\ IdleImporter
    /\ IdleDeref
    /\ IdleRsc
    /\ IdleJob
    /\ IdleHashing
    /\ IdleFrames
    /\ IdleOutputs
    /\ IdleDialog
    /\ IdleWhm

\* reader.parseTKeyTDat(mm) with the stream at the start of the blocks
ParseBlocks ==
    /\ pc = "blocks"
    /\ \E r \in {parseTKeyTDat(version, file, 0)} :
          /\ err' = ~r.ok
          /\ data' = IF r.ok THEN <<<<NameMAIN, r.entries>>>> ELSE <<>>
    /\ pc' = "parsed"
    /\ UNCHANGED <<importer, m_GxtData, file, version, whm, deref, rsc, job, hashing, frames,
                   outputs, dialog>>

SpecBlocks == InitBlocks /\ [][ParseBlocks]_vars

(***************************************************************************)
(* Version detection: open_gxt and open_gxt2 on files with every kind of   *)
(* header, a document being loaded or not                                  *)
(***************************************************************************)
\* the first bytes of a file: (4, 16), (4, 8), (4, 0), the three tags, zeros, three
\* bytes, nothing
HeadPool == {<<4, 0, 16, 0>>, <<4, 0, 8, 0>>, <<4, 0, 0, 0>>, TagTABL, TagTKEY, Tag2TXG,
             Zeros(4), <<4, 0, 16>>, <<>>}

\* what follows: nothing, an empty TABL block, an empty TKEY block and an empty TDAT
\* block, no entry and the second '2TXG'
RestPool == {<<>>, TagTABL \o PackI(0), PackI(0) \o TagTDAT \o PackI(0),
             PackI(0) \o Tag2TXG \o PackI(16)}

\* a document that was loaded before, with its version
LoadedPool == {<<"None", <<>>>>} \cup
              ({"III", "VC", "SA", "IV", "V"} \X {<<<<NameMAIN, <<<<<<75>>, <<65>>>>>>>>>>})

InitDetect ==
    /\ pc = "saved"
    /\ \E h \in HeadPool, r \in RestPool : file = h \o r
    /\ \E d \in LoadedPool : version = d[1] /\ data = d[2]
    /\ m_GxtData = <<>>
    /\ err = FALSE
    /\ IdleImporter
    /\ IdleDeref
    /\ IdleRsc
    /\ IdleJob
    /\ IdleHashing
    /\ IdleFrames
    /\ IdleOutputs
    /\ IdleDialog
    /\ IdleWhm

NextDetect == OpenGxt \/ OpenGxt2

SpecDetect == InitDetect /\ [][NextDetect]_vars

(***************************************************************************)
(* Dereferences: pgPtr.locate and pgObjectArray.get_span on an arena that  *)
(* holds the reference in its first 8 bytes                                *)
(***************************************************************************)
\* offsets around the places where a dereference stops fitting into one page, and
\* the largest offset
OffsetPool28 == {0, 8, 10, 40, 41, 248, 252, 255, 256, 260, 268435455}
TagPool == {0, Cpu_Type, 6, 15}

\* a page of zeros with "Hi" at 10 and no zero byte after 250; a page without any
\* zero byte; a page of zeros
TextPage == [i \in 1..PageSize |-> IF i = 11 THEN 72 ELSE IF i = 12 THEN 105
                                   ELSE IF i > 250 THEN 65 ELSE 0]
PagePoolDeref == {TextPage, [i \in 1..PageSize |-> 65], Zeros(PageSize)}

\* the pgObjectArray (a pgPtr when count = size = 0) written over the start of a page
RefBytes(r) == U32LE(r[1]) \o U16LE(r[2]) \o U16LE(r[3])
WithRef(r, pg) == RefBytes(r) \o SubSeq(pg, 9, Len(pg))

InitDeref ==
    /\ pc = "ref"
    /\ \E t \in TagPool, o \in OffsetPool28, count \in 0..MaxKids, size \in 0..MaxKids :
          pgptr = <<UnpackI(Ptr(t, o), 0), count, size>>
    /\ block \in {WithRef(pgptr, pg) : pg \in PagePoolDeref} \cup {<<>>}
    /\ page = <<>> /\ container = <<>> /\ hashes = {} /\ ptr = <<>>
    /\ located = <<>>
    /\ ledger = <<>> /\ result = <<>> /\ results = <<>>
    /\ IdleBatch
    /\ IdleImporter
    /\ IdleRsc
    /\ IdleJob
    /\ IdleHashing
    /\ IdleFrames
    /\ IdleOutputs
    /\ IdleDialog
    /\ IdleGxt
    /\ file = <<>>
    /\ data = <<>>
    /\ err = FALSE

\* pgPtr.locate(block, CHtmlDocument) and pgPtr.locate(block, CHtmlNode)
LocateStruct ==
    /\ pc = "ref"
    /\ \E n \in {sizeof_CHtmlDocument, sizeof_CHtmlNode} :
          /\ located' = locate_struct(block, pgptr[1], n)
          /\ pc' = IF n = sizeof_CHtmlNode THEN "node" ELSE "document"
    /\ UNCHANGED <<pgptr, file, data, err, gxt, whm, importer, rsc, job, hashing, frames, outputs,
                   dialog>>

\* pgPtr.locate(block, c_char)
LocateString ==
    /\ pc = "ref"
    /\ located' = locate_c_char(block, pgptr[1])
    /\ pc' = "string"
    /\ UNCHANGED <<pgptr, file, data, err, gxt, whm, importer, rsc, job, hashing, frames, outputs,
                   dialog>>

\* pgObjectArray.get_span(block, pgPtr) of the array at the start of the arena
GetSpan ==
    /\ pc = "ref"
    /\ located' = <<get_span(block, 0)>>
    /\ pc' = "span"
    /\ UNCHANGED <<pgptr, file, data, err, gxt, whm, importer, rsc, job, hashing, frames, outputs,
                   dialog>>

NextDeref == LocateStruct \/ LocateString \/ GetSpan

SpecDeref == InitDeref /\ [][NextDeref]_vars

(***************************************************************************)
(* UnpackWhm: headers declaring arenas of up to MaxPages pages of 256      *)
(* bytes, inflated data of several lengths                                 *)
(***************************************************************************)
MaxPages == 18

\* a region: the weight of its page flags and page count (the 11 bits taken as one
\* number) and its page size exponent; an exponent matters only with a weight
RegionPool ==
    {r \in {0, 1, 2, 3, 4, 8, 16} \X {0, 1, 15} :
        r[1] = 0 \/ (r[2] < 15 /\ r[1] * 2^r[2] <= MaxPages)}

\* the flags word of a virtual region v, a physical region p and the two last bits u
FlagsOf(v, p, u) ==
    << p[1] \div 2 + 1024 * p[2] + 16384 * u, v[1] + 2048 * v[2] + 32768 * (p[1] % 2) >>

\* 'RSC\x05', a type, the flags
HeaderOf(fl) == <<82, 83, 67, 5>> \o PackI(1) \o U32LE(fl)

\* n bytes, none of them zero
Payload(n) == [i \in 1..n |-> 1 + (i % 255)]

InflatedPool ==
    {<<>>} \cup {<<Payload(n)>> : n \in {0, 1, PageSize, PageSize + 44, PageSize * (MaxPages + 1)}}

InitUnpack ==
    /\ pc = "whm"
    /\ \E v \in RegionPool, p \in RegionPool, u \in {0, 3}, cut \in {0, 1} :
          /\ v[1] * 2^v[2] + p[1] * 2^p[2] <= MaxPages
          /\ file = SubSeq(HeaderOf(FlagsOf(v, p, u)), 1, sizeof_rsc_header - cut)
    /\ inflated \in InflatedPool
    /\ stderr = <<>>
    /\ IdleWhm
    /\ IdleImporter
    /\ IdleDeref
    /\ IdleJob
    /\ IdleHashing
    /\ IdleFrames
    /\ IdleOutputs
    /\ IdleDialog
    /\ IdleGxt
    /\ data = <<>>
    /\ err = FALSE

\* CHtmlTextExport.UnpackWhm(input_file): file holds the header, inflated what
\* zlib.decompress makes of the bytes after it
UnpackWhmFile ==
    /\ pc = "whm"
    /\ \E r \in {UnpackWhm(file, inflated)} :
          /\ block' = r[1]
          /\ stderr' = stderr \o r[2]
    /\ err' = (Len(file) < sizeof_rsc_header \/ inflated = <<>>)
    /\ pc' = "unpacked"
    /\ UNCHANGED <<page, container, hashes, ptr, batch, ledger, result, results,
                   file, data, gxt, importer, deref, inflated, job, hashing, frames, outputs,
                   dialog>>

SpecUnpack == InitUnpack /\ [][UnpackWhmFile]_vars

(***************************************************************************)
(* The walker on trees with nodes of an unknown kind                       *)
(***************************************************************************)
\* leaves under a child: data nodes and a node of an unknown kind
LeafPool ==
    {<<Node_HtmlDataNode, Hi, <<>>>>, <<Node_HtmlDataNode, <<201>>, <<>>>>,
     <<<<0, 7>>, Hi, <<>>>>}

\* children of the body: every kind, with a text of their own, over at most one leaf
BranchPool ==
    {<<k, s, kids>> : k \in WalkTypes \cup {<<0, 2>>, <<0, 3>>}, s \in {<<72>>, <<>>},
                      kids \in SeqsUpTo(LeafPool, 1)}

\* the body: a container, a data node or a node of an unknown kind
TreePool ==
    {<<k, <<105>>, kids>> : k \in WalkTypes, kids \in SeqsUpTo(BranchPool, MaxKids)}

InitWalk ==
    /\ pc = "arena"
    /\ page \in TreePool
    /\ block = Arena(page, Cpu_Type, Len(page[3]))
    /\ hashes \in {{}, {fnv1a_32(Hi)}}
    /\ container = <<>>
    /\ ptr = <<>>
    /\ IdleBatch
    /\ ledger = <<>> /\ result = <<>> /\ results = <<>>
    /\ file = <<>>
    /\ data = <<>>
    /\ err = FALSE
    /\ IdleImporter
    /\ IdleDeref
    /\ IdleRsc
    /\ IdleJob
    /\ IdleHashing
    /\ IdleFrames
    /\ IdleOutputs
    /\ IdleDialog
    /\ IdleGxt

SpecWalk == InitWalk /\ [][ExtractWhm]_vars

(***************************************************************************)
(* Batch export: ExportHtml in sequence, WhmBatchWorker on a thread pool   *)
(***************************************************************************)
MaxFiles == 3
MaxWorkers == 2

\* the files a folder may hold: two pages with a text, a file that cannot be read, a
\* file whose data does not inflate, a page of zeros (its m_pBody is no pointer), a
\* page whose .txt cannot be written
WhmFiles == {"good", "other", "unreadable", "bad deflate", "no body", "unwritable"}

\* the arenas of the two pages: a body that is a data node, "Hi" or one accented letter
HiArena == Arena(<<Node_HtmlDataNode, Hi, <<>>>>, Cpu_Type, 0)
OtherArena == Arena(<<Node_HtmlDataNode, <<201>>, <<>>>>, Cpu_Type, 0)

\* the headers that declare two pages and one
TwoPages == HeaderOf(FlagsOf(<<2, 0>>, <<0, 0>>, 0))
OnePage == HeaderOf(FlagsOf(<<1, 0>>, <<0, 0>>, 0))

Disk(name) ==
    [readable |-> name # "unreadable",
     header_data |-> IF name = "no body" THEN OnePage ELSE TwoPages,
     inflated |->
        IF name = "bad deflate" THEN <<>>
        ELSE IF name = "no body" THEN <<Zeros(PageSize)>>
        ELSE IF name = "other" THEN <<OtherArena>>
        ELSE <<HiArena>>,
     writable |-> name # "unwritable"]

\* the sets of hashes a batch over these files can hold
HashSets == SUBSET {fnv1a_32(Hi), fnv1a_32(<<201>>)}

\* ExtractWhmStrings on each file of the disk, for each set of hashes and each
\* content of the memory after the block: computed once, looked up by the steps
Extractions ==
    {<<name, hs, beyond, ExtractWhmOf(UnpackWhmOf(Disk(name)), beyond, hs)>> :
        name \in WhmFiles, hs \in HashSets, beyond \in BeyondPool}

ExtractWhmFile(name, hs, beyond) ==
    (CHOOSE t \in Extractions : t[1] = name /\ t[2] = hs /\ t[3] = beyond)[4]

\* ExportHtml or WhmBatchWorker.run is about to start on a folder
InitBatch ==
    /\ pc \in {"ExportHtml", "run"}
    /\ folder \in SeqsUpTo(WhmFiles, MaxFiles)
    /\ futures = <<>> /\ cursor = 0
    /\ log_queue = <<>> /\ stdout = <<>> /\ signals = <<>> /\ exported_count = 0
    /\ IdleHashing
    /\ IdleFrames
    /\ IdleOutputs
    /\ IdleDialog
    /\ file = <<>>
    /\ data = <<>>
    /\ err = FALSE
    /\ IdleWhm
    /\ IdleImporter
    /\ IdleDeref
    /\ IdleRsc
    /\ IdleGxt

\* CHtmlTextExport.ExportHtml: hashes = set(), the first line printed
ExportHtmlStart ==
    /\ pc = "ExportHtml"
    /\ stdout' = Append(stdout, <<"exporting", 0>>)
    /\ hashes' = {}
    /\ pc' = "for"
    /\ UNCHANGED <<block, page, container, ptr, batch, ledger, result, results, file, data, err,
                   gxt, importer, deref, rsc, folder, futures, cursor, log_queue, signals,
                   exported_count, hashing, frames, outputs, dialog>>

\* one iteration of the loop of ExportHtml; an exception ends ExportHtml
ExportHtmlFile ==
    /\ pc = "for"
    /\ cursor < Len(folder)
    /\ \E beyond \in BeyondPool :
          \E r \in {ExtractWhmFile(folder[cursor + 1], hashes, beyond)} :
             \E w \in {ExportText(r.container, Disk(folder[cursor + 1]).writable)} :
                /\ stdout' = Append(stdout, <<"processing", cursor + 1>>)
                /\ hashes' = r.hashes
                /\ stderr' = stderr \o OfFile(cursor + 1, IF r.raised THEN r.printed
                                                           ELSE r.printed \o w[2])
                /\ exported' = (IF r.raised THEN exported ELSE exported \o w[1])
                /\ cursor' = (IF r.raised THEN cursor ELSE cursor + 1)
                /\ pc' = (IF r.raised THEN "aborted" ELSE pc)
                /\ err' = (err \/ r.raised)
    /\ UNCHANGED <<block, page, container, ptr, calls, ledger, result, results, file, data,
                   gxt, importer, deref, inflated, folder, futures, log_queue, signals,
                   exported_count, hashing, frames, outputs, dialog>>

\* ExportHtml after the loop: the last line printed
ExportHtmlDone ==
    /\ pc = "for"
    /\ cursor = Len(folder)
    /\ stdout' = Append(stdout, <<"done", cursor>>)
    /\ pc' = "finished"
    /\ UNCHANGED <<whm, file, data, err, gxt, importer, deref, rsc, folder, futures, cursor,
                   log_queue, signals, exported_count, hashing, frames, outputs, dialog>>

\* WhmBatchWorker.run in mode 'export', up to the submission of the futures; with no
\* file it returns through the finally clause
WorkerRun ==
    /\ pc = "run"
    /\ IF folder = <<>>
       THEN /\ stdout' = stdout \o <<<<"exporting", 0>>, <<"no files", 0>>>>
            /\ signals' = Append(signals, <<"finished", exported_count>>)
            /\ pc' = "finished"
            /\ UNCHANGED <<futures, log_queue>>
       ELSE /\ log_queue' = Append(log_queue, <<"exporting", 0>>)
            /\ futures' = [i \in 1..Len(folder) |-> <<"pending", <<>>, 0>>]
            /\ pc' = "result"
            /\ UNCHANGED <<stdout, signals>>
    /\ UNCHANGED <<whm, file, data, err, gxt, importer, deref, rsc, folder, cursor,
                   exported_count, hashing, frames, outputs, dialog>>

\* the futures a thread of the pool is working on
Running == {j \in 1..Len(futures) : futures[j][1] \in {"running", "extracted", "counting"}}

\* a thread of the pool takes the next future: _process_single_whm puts its first line
TaskBegin(i) ==
    /\ pc = "result"
    /\ i <= Len(futures)
    /\ futures[i][1] = "pending"
    /\ \A j \in 1..(i - 1) : futures[j][1] # "pending"
    /\ Cardinality(Running) < MaxWorkers
    /\ log_queue' = Append(log_queue, <<"processing", i>>)
    /\ futures' = [futures EXCEPT ![i] = <<"running", <<>>, 0>>]
    /\ UNCHANGED <<pc, whm, file, data, err, gxt, importer, deref, rsc, folder, cursor, stdout,
                   signals, exported_count, hashing, frames, outputs, dialog>>

\* _process_single_whm: ExtractWhmStrings(file_path, set()); an exception is put on the
\* queue, an empty container ends the task
TaskExtract(i) ==
    /\ pc = "result"
    /\ i <= Len(futures)
    /\ futures[i][1] = "running"
    /\ \E beyond \in BeyondPool :
          \E r \in {ExtractWhmFile(folder[i], {}, beyond)} :
             /\ stderr' = stderr \o OfFile(i, r.printed)
             /\ log_queue' = (IF r.raised THEN Append(log_queue, <<"failed", i>>) ELSE log_queue)
             /\ futures' = [futures EXCEPT ![i] =
                               IF r.raised \/ r.container = <<>> THEN <<"done", <<>>, 0>>
                               ELSE <<"extracted", r.container, 0>>]
    /\ UNCHANGED <<pc, whm, file, data, err, gxt, importer, deref, inflated, folder, cursor,
                   stdout, signals, exported_count, hashing, frames, outputs, dialog>>

\* _process_single_whm: ExportText on a name that does not exist yet, then
\* exported_count is read
TaskExport(i) ==
    /\ pc = "result"
    /\ i <= Len(futures)
    /\ futures[i][1] = "extracted"
    /\ \E w \in {ExportText(futures[i][2], Disk(folder[i]).writable)} :
          /\ exported' = exported \o w[1]
          /\ stderr' = stderr \o OfFile(i, w[2])
    /\ futures' = [futures EXCEPT ![i] = <<"counting", <<>>, exported_count>>]
    /\ UNCHANGED <<pc, block, page, container, hashes, ptr, calls, ledger, result, results,
                   file, data, err, gxt, importer, deref, inflated, folder, cursor, log_queue,
                   stdout, signals, exported_count, hashing, frames, outputs, dialog>>

\* _process_single_whm: exported_count is written, the last line is put
TaskCount(i) ==
    /\ pc = "result"
    /\ i <= Len(futures)
    /\ futures[i][1] = "counting"
    /\ exported_count' = futures[i][3] + 1
    /\ log_queue' = Append(log_queue, <<"completed", i>>)
    /\ futures' = [futures EXCEPT ![i] = <<"done", <<>>, 0>>]
    /\ UNCHANGED <<pc, whm, file, data, err, gxt, importer, deref, rsc, folder, cursor, stdout,
                   signals, hashing, frames, outputs, dialog>>

\* one iteration of the loop of run: future.result() has returned, the progress is
\* emitted, the queue is printed
RunResult ==
    /\ pc = "result"
    /\ cursor < Len(futures)
    /\ futures[cursor + 1][1] = "done"
    /\ signals' = Append(signals, <<"progress", cursor + 1, Len(folder)>>)
    /\ stdout' = stdout \o log_queue
    /\ log_queue' = <<>>
    /\ cursor' = cursor + 1
    /\ UNCHANGED <<pc, whm, file, data, err, gxt, importer, deref, rsc, folder, futures,
                   exported_count, hashing, frames, outputs, dialog>>

\* run after the loop: the executor is left, the last line is put, the finally
\* clause prints the queue and emits finished_with_details
RunFinish ==
    /\ pc = "result"
    /\ cursor = Len(futures)
    /\ stdout' = stdout \o log_queue \o <<<<"done", Len(folder)>>>>
    /\ log_queue' = <<>>
    /\ signals' = Append(signals, <<"finished", exported_count>>)
    /\ pc' = "finished"
    /\ UNCHANGED <<whm, file, data, err, gxt, importer, deref, rsc, folder, futures, cursor,
                   exported_count, hashing, frames, outputs, dialog>>

NextBatch ==
    \/ ExportHtmlStart
    \/ ExportHtmlFile
    \/ ExportHtmlDone
    \/ WorkerRun
    \/ RunResult
    \/ RunFinish
    \/ \E i \in 1..MaxFiles : TaskBegin(i)
    \/ \E i \in 1..MaxFiles : TaskExtract(i)
    \/ \E i \in 1..MaxFiles : TaskExport(i)
    \/ \E i \in 1..MaxFiles : TaskCount(i)

SpecBatch == InitBatch /\ [][NextBatch]_vars

\* the steps of the thread that runs the batch, and those of the pool on future i
BatchThread ==
    ExportHtmlStart \/ ExportHtmlFile \/ ExportHtmlDone \/ WorkerRun \/ RunResult \/ RunFinish

PoolThread(i) == TaskBegin(i) \/ TaskExtract(i) \/ TaskExport(i) \/ TaskCount(i)

\* the thread of the batch keeps running, and the executor runs every future it
\* was given: future.result() and the exit of the with block wait for them
SpecBatchFair ==
    /\ SpecBatch
    /\ WF_vars(BatchThread)
    /\ \A i \in 1..MaxFiles : WF_vars(PoolThread(i))

(***************************************************************************)
(* The four hash functions on key strings                                  *)
(***************************************************************************)
MaxKey == 3

\* "A", "a", "z", the backslash, of Latin-1 the micro sign, the sharp s, e with
\* acute and y with diaeresis, and the Kelvin sign
KeyChars == {65, 97, 122, 92, 181, 223, 233, 255, 8490}

InitHash ==
    /\ pc = "key"
    /\ text_key \in SeqsUpTo(KeyChars, MaxKey)
    /\ digest = <<>>
    /\ IdleFrames
    /\ IdleOutputs
    /\ IdleDialog
    /\ file = <<>>
    /\ data = <<>>
    /\ err = FALSE
    /\ IdleWhm
    /\ IdleImporter
    /\ IdleDeref
    /\ IdleRsc
    /\ IdleJob
    /\ IdleGxt

\* fnv1a_32(data) on the characters as bytes
HashFnv ==
    /\ pc = "key"
    /\ \A i \in 1..Len(text_key) : text_key[i] < 256
    /\ digest' = [fn |-> "fnv1a_32", ok |-> TRUE, value |-> fnv1a_32(text_key)]
    /\ pc' = "hashed"
    /\ UNCHANGED <<text_key, file, data, err, gxt, whm, importer, deref, rsc, job, frames, outputs,
                   dialog>>

\* gta4_gxt_hash(key)
HashGta4 ==
    /\ pc = "key"
    /\ digest' = [fn |-> "gta4_gxt_hash", ok |-> TRUE, value |-> gta4_gxt_hash(text_key)]
    /\ pc' = "hashed"
    /\ UNCHANGED <<text_key, file, data, err, gxt, whm, importer, deref, rsc, job, frames, outputs,
                   dialog>>

\* joaat(key)
HashJoaat ==
    /\ pc = "key"
    /\ digest' = [fn |-> "joaat", ok |-> TRUE, value |-> joaat(text_key)]
    /\ pc' = "hashed"
    /\ UNCHANGED <<text_key, file, data, err, gxt, whm, importer, deref, rsc, job, frames, outputs,
                   dialog>>

\* gta_sa_hash(key): a value, or TypeError
HashSa ==
    /\ pc = "key"
    /\ digest' = (IF gta_sa_hash_raises(text_key)
                  THEN [fn |-> "gta_sa_hash", ok |-> FALSE, value |-> <<>>]
                  ELSE [fn |-> "gta_sa_hash", ok |-> TRUE, value |-> gta_sa_hash(text_key)])
    /\ pc' = "hashed"
    /\ UNCHANGED <<text_key, file, data, err, gxt, whm, importer, deref, rsc, job, frames, outputs,
                   dialog>>

\* gta_sa_hash of key, of key.upper() and of key.lower()
HashSaCases ==
    /\ pc = "key"
    /\ digest' = [fn |-> "gta_sa_hash", key |-> gta_sa_hash_call(text_key),
                  upper |-> gta_sa_hash_call(StrUpper(text_key)),
                  lower |-> gta_sa_hash_call(StrLower(text_key))]
    /\ pc' = "cases"
    /\ UNCHANGED <<text_key, file, data, err, gxt, whm, importer, deref, rsc, job, frames, outputs,
                   dialog>>

NextHash == HashFnv \/ HashGta4 \/ HashJoaat \/ HashSa \/ HashSaCases

SpecHash == InitHash /\ [][NextHash]_vars

(***************************************************************************)
(* The key of an entry: one line "key=value" given to the loader of SA, of *)
(* IV and of V                                                             *)
(***************************************************************************)
MaxName == 3

\* "0", "x", "A", "g", "1", "_", the superscript two and the sharp s
NameChars == {48, 120, 65, 103, 49, 95, 178, 223}

NamePool == SeqsUpTo(NameChars, MaxName) \ {<<>>}

\* the loader has read the header [MAIN] (SA, IV) or nothing yet (V)
InitKeys ==
    /\ pc \in {"sa", "iv", "v"}
    /\ version = (IF pc = "sa" THEN "SA" ELSE IF pc = "iv" THEN "IV" ELSE "V")
    /\ m_GxtData = (IF pc = "v" THEN <<>> ELSE WithMain(<<>>))
    /\ data = <<>>
    /\ file = <<>>
    /\ err = FALSE
    /\ IdleImporter
    /\ IdleDeref
    /\ IdleRsc
    /\ IdleJob
    /\ IdleHashing
    /\ IdleFrames
    /\ IdleOutputs
    /\ IdleDialog
    /\ IdleWhm

\* SAGXT.load_text: the entry line; False is returned when gta_sa_hash raises
LoadTextKeySA ==
    /\ pc = "sa"
    /\ content = <<>>
    /\ ~err
    /\ \E line \in NamePool \X ValuePool :
          /\ content' = <<line>>
          /\ IF SaHashKeyRaises(line[1])
             THEN err' = TRUE /\ UNCHANGED m_GxtData
             ELSE /\ m_GxtData' = WithMain(SA_load_text(<<MainOf(m_GxtData), <<>>>>, line,
                                                        SaHashKey(line[1]))[1])
                  /\ UNCHANGED err
    /\ UNCHANGED <<pc, file, version, data, all_errors, hash_tracker, whm, deref, rsc, job, hashing,
                   frames, outputs, dialog>>

\* IVGXT.load_txt: the entry line
LoadTxtKeyIV ==
    /\ pc = "iv"
    /\ content = <<>>
    /\ \E line \in {k \in NamePool : IvEntryKey(k)} \X ValuePool :
          /\ content' = <<line>>
          /\ m_GxtData' = WithMain(IV_load_txt(MainOf(m_GxtData), line))
    /\ UNCHANGED <<pc, file, version, data, err, all_errors, hash_tracker, whm, deref, rsc, job,
                   hashing, frames, outputs, dialog>>

\* gta5_gxt2.parse_txt: the entry line; the ValueError of int(key) is not caught
ParseTxtKeyV ==
    /\ pc = "v"
    /\ content = <<>>
    /\ ~err
    /\ \E line \in NamePool \X (ValuePool \ {<<>>}) :
          /\ content' = <<line>>
          /\ \E r \in {parse_txt(data, line)} :
                /\ data' = r.res
                /\ err' = r.raised
    /\ UNCHANGED <<pc, file, gxt, all_errors, hash_tracker, whm, deref, rsc, job, hashing, frames,
                   outputs, dialog>>

NextKeys == LoadTextKeySA \/ LoadTxtKeyIV \/ ParseTxtKeyV

SpecKeys == InitKeys /\ [][NextKeys]_vars

(***************************************************************************)
(* String extents: parseTKeyTDat of each version reader on a table of two  *)
(* entries whose offsets point anywhere in the TDAT block or beyond it     *)
(***************************************************************************)
MaxUnits == 3

\* the code units of a TDAT block: the null unit, "A" and "B"
UnitPool == {0, 65, 66}

\* the width of a code unit in bytes
UnitWidth(ver) == IF ver = "SA" THEN 1 ELSE 2

\* the declared offsets: the start of every unit, the end of the longest block, one
\* unit beyond it, and an offset near 2^32
ExtentOffsets(ver) == {U32(k * UnitWidth(ver)) : k \in 0..(MaxUnits + 1)} \cup {<<65535, 65534>>}

\* row k of the TKEY block with the offset off
ExtentRow(ver, k, off) ==
    U32LE(off) \o (IF ver \in {"SA", "IV"} THEN PackI(k) ELSE Ljust8(<<75, 48 + k>>))

\* the TDAT bytes of a block of units
ExtentBytes(ver, units) == IF ver = "SA" THEN units ELSE BytesOf(units)

\* a TKEY block of two rows and the TDAT block of the units
ExtentImage(ver, offs, units) ==
    TagTKEY \o PackI(2 * Len(ExtentRow(ver, 1, offs[1])))
    \o ExtentRow(ver, 1, offs[1]) \o ExtentRow(ver, 2, offs[2])
    \o TagTDAT \o PackI(Len(ExtentBytes(ver, units))) \o ExtentBytes(ver, units)

InitExtents ==
    /\ pc = "blocks"
    /\ version \in Versions
    /\ \E offs \in ExtentOffsets(version) \X ExtentOffsets(version), units \in SeqsUpTo(UnitPool, MaxUnits) :
          file = ExtentImage(version, offs, units)
    /\ m_GxtData = <<>>
    /\ data = <<>>
    /\ err = FALSE
    /\ IdleImporter
    /\ IdleDeref
    /\ IdleRsc
    /\ IdleJob
    /\ IdleHashing
    /\ IdleFrames
    /\ IdleOutputs
    /\ IdleDialog
    /\ IdleWhm

SpecExtents == InitExtents /\ [][ParseBlocks]_vars

(***************************************************************************)
(* The ledger of one entry: written by ExportText, the escaped original    *)
(* carried into the editable line, read by LoadText                        *)
(***************************************************************************)
MaxText == 3

\* CR, LF, the backslash, "n", the space, the tab and "a"
TextChars == {13, 10, 92, 110, 32, 9, 97}

\* a hash that is the hash of none of the texts
LedgerHash == fnv1a_32(<<120>>)

InitEscape ==
    /\ pc = "entries"
    /\ container \in {<<<<LedgerHash, s>>>> : s \in SeqsUpTo(TextChars, MaxText)}
    /\ block = <<>> /\ page = <<>> /\ hashes = {} /\ ptr = <<>>
    /\ ledger = <<>>
    /\ result = <<>>
    /\ results = <<>>
    /\ file = <<>>
    /\ data = <<>>
    /\ err = FALSE
    /\ IdleImporter
    /\ IdleDeref
    /\ IdleRsc
    /\ IdleJob
    /\ IdleHashing
    /\ IdleFrames
    /\ IdleOutputs
    /\ IdleDialog
    /\ IdleGxt
    /\ IdleBatch

\* CHtmlTextExport.ExportText(filename, container)
ExportLedger ==
    /\ pc = "entries"
    /\ ledger' = ExportTextLines(container)
    /\ pc' = "exported"
    /\ UNCHANGED <<importer, result, results, walker, batch, file, data, err, gxt, deref, rsc, job,
                   hashing, frames, outputs, dialog>>

\* the operator copies the escaped original of the commented line into the
\* editable line below it
CarryOriginal ==
    /\ pc = "exported"
    /\ ledger' = [ledger EXCEPT ![2] = @ \o SubSeq(ledger[1], 13, Len(ledger[1]))]
    /\ pc' = "ledger"
    /\ UNCHANGED <<importer, result, results, walker, batch, file, data, err, gxt, deref, rsc, job,
                   hashing, frames, outputs, dialog>>

NextEscape == ExportLedger \/ CarryOriginal \/ LoadLedger

SpecEscape == InitEscape /\ [][NextEscape]_vars

(***************************************************************************)
(* Arenas whose child arrays may point back: three nodes, the child array  *)
(* of the first two any list of them, walked call by call                  *)
(***************************************************************************)
MaxRefs == 2

\* the nodes <<kind, text, indices of the children>>: the body "i", a data node
\* "Hi" and a data node "Ho" without children
GraphPool ==
    {<< <<k, <<105>>, a>>, <<Node_HtmlDataNode, Hi, b>>, <<Node_HtmlDataNode, <<72, 111>>, <<>>>> >> :
        k \in {<<0, 0>>, Node_HtmlDataNode},
        a \in SeqsUpTo(1..3, MaxRefs), b \in SeqsUpTo(1..3, MaxRefs)}

\* the bytes a node takes: the node, its m_pData, its text with a NUL, its pointers
GraphNodeSize(n) == sizeof_CHtmlNode + 4 + Len(n[2]) + 1 + 4 * Len(n[3])

\* the offset of node j of a graph
RECURSIVE GraphOffset(_, _)
GraphOffset(g, j) ==
    IF j = 1 THEN sizeof_CHtmlDocument ELSE GraphOffset(g, j - 1) + GraphNodeSize(g[j - 1])

\* the pointers of a child array
RECURSIVE GraphKidPtrs(_, _)
GraphKidPtrs(g, kids) ==
    IF kids = <<>> THEN <<>>
    ELSE Ptr(Cpu_Type, GraphOffset(g, kids[1])) \o GraphKidPtrs(g, Tail(kids))

\* node j: its parent reference points to the last node, whatever its parents are
GraphNodeBytes(g, j) ==
    Zeros(4) \o U32LE(g[j][1]) \o Ptr(Cpu_Type, GraphOffset(g, 3))
      \o Ptr(Cpu_Type, GraphOffset(g, j) + 221 + Len(g[j][2]))
      \o U16LE(Len(g[j][3])) \o U16LE(Len(g[j][3])) \o Zeros(196)
      \o Ptr(Cpu_Type, GraphOffset(g, j) + 220) \o g[j][2] \o <<0>>
      \o GraphKidPtrs(g, g[j][3])

\* the arena of a graph: three pages
GraphArena(g) ==
    Resize(Zeros(4) \o Ptr(Cpu_Type, sizeof_CHtmlDocument) \o Zeros(36)
             \o GraphNodeBytes(g, 1) \o GraphNodeBytes(g, 2) \o GraphNodeBytes(g, 3),
           3 * PageSize)

InitCycle ==
    /\ pc = "arena"
    /\ page \in GraphPool
    /\ block = GraphArena(page)
    /\ hashes = {}
    /\ container = <<>>
    /\ ptr = <<>>
    /\ stack = <<>>
    /\ IdleBatch
    /\ ledger = <<>> /\ result = <<>> /\ results = <<>>
    /\ file = <<>>
    /\ data = <<>>
    /\ err = FALSE
    /\ IdleImporter
    /\ IdleDeref
    /\ IdleRsc
    /\ IdleJob
    /\ IdleHashing
    /\ IdleGxt
    /\ IdleOutputs
    /\ IdleDialog

\* ExtractWhmStrings up to the call of ExtractNodeStrings on the body
WalkBegin ==
    /\ pc = "arena"
    /\ IF Len(block) < sizeof_CHtmlDocument
          \/ Locate(block, UnpackI(block, 4), sizeof_CHtmlNode) = -1
       THEN /\ stderr' = stderr \o (IF block = <<>> THEN <<>>
                                     ELSE IF Len(block) < sizeof_CHtmlDocument
                                     THEN <<"document error">>
                                     ELSE <<"no body">>)
            /\ pc' = "extracted"
            /\ UNCHANGED stack
       ELSE /\ stack' = <<FrameOf(Locate(block, UnpackI(block, 4), sizeof_CHtmlNode), block)>>
            /\ pc' = "walk"
            /\ UNCHANGED stderr
    /\ UNCHANGED <<importer, walker, batch, ledger, result, results, file, data, err, gxt, deref,
                   inflated, job, hashing, outputs, dialog>>

\* one element of the loop over the children in the innermost frame: the element
\* is skipped when it locates no node, else ExtractNodeStrings is called on it
WalkChild ==
    /\ pc = "walk"
    /\ stack[Len(stack)].next <= Len(stack[Len(stack)].span)
    /\ Len(stack) <= RecursionLimit
    /\ ~RecursionExceeded(Len(stack) + 1)
          \/ Locate(block, stack[Len(stack)].span[stack[Len(stack)].next], sizeof_CHtmlNode) = -1
    /\ \E child \in {Locate(block, stack[Len(stack)].span[stack[Len(stack)].next],
                            sizeof_CHtmlNode)} :
          stack' = [stack EXCEPT ![Len(stack)].next = @ + 1]
                     \o (IF child = -1 THEN <<>> ELSE <<FrameOf(child, block)>>)
    /\ UNCHANGED <<pc, importer, walker, batch, ledger, result, results, file, data, err, gxt,
                   deref, rsc, job, hashing, outputs, dialog>>

\* the call on a child raises RecursionError: it leaves every frame and is caught
\* and printed by ExtractWhmStrings, which returns the container
WalkRaise ==
    /\ pc = "walk"
    /\ stack[Len(stack)].next <= Len(stack[Len(stack)].span)
    /\ Locate(block, stack[Len(stack)].span[stack[Len(stack)].next], sizeof_CHtmlNode) # -1
    /\ RecursionExceeded(Len(stack) + 1)
    /\ stack' = <<>>
    /\ stderr' = Append(stderr, "maximum recursion depth exceeded")
    /\ pc' = "extracted"
    /\ UNCHANGED <<importer, walker, batch, ledger, result, results, file, data, err, gxt, deref,
                   inflated, job, hashing, outputs, dialog>>

\* the loop of the innermost frame is over: the node's own kind and text, and the
\* return to the caller
WalkOwn ==
    /\ pc = "walk"
    /\ stack[Len(stack)].next > Len(stack[Len(stack)].span)
    /\ \E view \in {DataText(stack[Len(stack)].node, block)} :
       \E r \in {OwnAtDepth(UnpackI(block, stack[Len(stack)].node + 4), view,
                             <<container, hashes>>, Len(stack))} :
          /\ container' = r.st[1]
          /\ hashes' = r.st[2]
          /\ stderr' = stderr \o r.printed
    /\ stack' = SubSeq(stack, 1, Len(stack) - 1)
    /\ pc' = (IF Len(stack) = 1 THEN "extracted" ELSE "walk")
    /\ UNCHANGED <<importer, block, page, ptr, batch, ledger, result, results, file, data, err,
                   gxt, deref, inflated, job, hashing, outputs, dialog>>

NextCycle == WalkBegin \/ WalkChild \/ WalkRaise \/ WalkOwn

SpecCycle == InitCycle /\ [][NextCycle]_vars

\* the thread that runs ExtractWhmStrings keeps running
SpecCycleFair == SpecCycle /\ WF_vars(NextCycle)

(***************************************************************************)
(* The output paths of a batch export: the tasks of the pool choose and    *)
(* write their ledgers side by side                                        *)
(***************************************************************************)
MaxInputs == 2

\* "a.whm", "a_1.whm", "b.whm"; "a.txt", "a_1.txt", "b.txt"
WhmNames == {<<97, 46, 119, 104, 109>>, <<97, 95, 49, 46, 119, 104, 109>>,
             <<98, 46, 119, 104, 109>>}
TxtNames == {WithSuffixTxt(n) : n \in WhmNames}

\* the input files rglob found: distinct names, each with or without a text to export
InputPool ==
    {f \in SeqsUpTo(WhmNames \X BOOLEAN, MaxInputs) :
        f # <<>> /\ \A i, j \in 1..Len(f) : f[i][1] = f[j][1] => i = j}

InitPaths ==
    /\ pc = "pool"
    /\ folder \in InputPool
    /\ futures = [i \in 1..Len(folder) |-> "pending"]
    /\ \E old \in SUBSET TxtNames : txt_files = {<<n, 0>> : n \in old}
    /\ output_txt_path = [i \in 1..Len(folder) |-> <<>>]
    /\ counter = [i \in 1..Len(folder) |-> 0]
    /\ max_workers \in 1..MaxWorkers
    /\ cursor = 0
    /\ log_queue = <<>> /\ stdout = <<>> /\ signals = <<>> /\ exported_count = 0
    /\ IdleHashing
    /\ IdleFrames
    /\ IdleDialog
    /\ file = <<>>
    /\ data = <<>>
    /\ err = FALSE
    /\ IdleWhm
    /\ IdleImporter
    /\ IdleDeref
    /\ IdleRsc
    /\ IdleGxt

\* the tasks a thread of the pool is running
TasksRunning == {i \in 1..Len(folder) : futures[i] \in {"while", "chosen"}}

\* a thread of the pool takes task i: ExtractWhmStrings, and with a container that
\* is not empty the first candidate path
TaskFirstPath(i) ==
    /\ pc = "pool"
    /\ futures[i] = "pending"
    /\ Cardinality(TasksRunning) < max_workers
    /\ IF folder[i][2]
       THEN /\ output_txt_path' = [output_txt_path EXCEPT ![i] = WithSuffixTxt(folder[i][1])]
            /\ counter' = [counter EXCEPT ![i] = 1]
            /\ futures' = [futures EXCEPT ![i] = "while"]
       ELSE /\ futures' = [futures EXCEPT ![i] = "done"]
            /\ UNCHANGED <<output_txt_path, counter>>
    /\ UNCHANGED <<pc, whm, file, data, err, gxt, importer, deref, rsc, folder, cursor,
                   log_queue, stdout, signals, exported_count, hashing, frames, txt_files,
                   max_workers, dialog>>

\* one test of "while output_txt_path.exists()": the next candidate, or the path
\* is chosen
TaskProbePath(i) ==
    /\ pc = "pool"
    /\ futures[i] = "while"
    /\ IF PathExists(txt_files, output_txt_path[i])
       THEN /\ output_txt_path' =
                 [output_txt_path EXCEPT
                    ![i] = NumberedTxt(PathStem(WithSuffixTxt(folder[i][1])), counter[i])]
            /\ counter' = [counter EXCEPT ![i] = @ + 1]
            /\ UNCHANGED futures
       ELSE /\ futures' = [futures EXCEPT ![i] = "chosen"]
            /\ UNCHANGED <<output_txt_path, counter>>
    /\ UNCHANGED <<pc, whm, file, data, err, gxt, importer, deref, rsc, folder, cursor,
                   log_queue, stdout, signals, exported_count, hashing, frames, txt_files,
                   max_workers, dialog>>

\* ExportText(output_txt_path, container): open(path, "w") creates the file or
\* empties it, and the ledger is written
TaskWritePath(i) ==
    /\ pc = "pool"
    /\ futures[i] = "chosen"
    /\ txt_files' = txt_files \cup {<<output_txt_path[i], i>>}
    /\ futures' = [futures EXCEPT ![i] = "done"]
    /\ exported_count' = exported_count + 1
    /\ UNCHANGED <<pc, whm, file, data, err, gxt, importer, deref, rsc, folder, cursor,
                   log_queue, stdout, signals, hashing, frames, output_txt_path, counter,
                   max_workers, dialog>>

NextPaths ==
    \E i \in 1..Len(folder) : TaskFirstPath(i) \/ TaskProbePath(i) \/ TaskWritePath(i)

SpecPaths == InitPaths /\ [][NextPaths]_vars

(***************************************************************************)
(* The batch jobs of the WHM tool dialog: the clicks on the run buttons,   *)
(* the worker thread, its finished signal, the close of the dialog         *)
(***************************************************************************)
MaxJobs == 3

\* what the try of WhmBatchWorker.run can come to
JobOutcomes == {"no files", "completed", "raised"}

InitDialog ==
    /\ pc = "dialog"
    /\ worker_thread = <<>> /\ workers = <<>> /\ posted = <<>>
    /\ sys_streams = ToOriginal
    /\ ui_enabled = TRUE /\ visible = TRUE /\ close_event = "none"
    /\ IdleOutputs
    /\ IdleFrames
    /\ IdleHashing
    /\ IdleJob
    /\ file = <<>>
    /\ data = <<>>
    /\ err = FALSE
    /\ IdleWhm
    /\ IdleImporter
    /\ IdleDeref
    /\ IdleRsc
    /\ IdleGxt

\* _run_batch_job(mode, input_path, output_path)
run_batch_job(mode) ==
    IF WorkerBusy(worker_thread, workers)
    THEN UNCHANGED dialog
    ELSE /\ ui_enabled' = FALSE
         /\ sys_streams' = ToLogEmitter
         /\ workers' = Append(workers, NewWorker(mode))
         /\ worker_thread' = <<Len(workers) + 1>>
         /\ UNCHANGED <<posted, visible, close_event>>

\* a click on the run button of the export tab, which is enabled: run_export with a
\* path that is a folder or not
run_export ==
    /\ pc = "dialog"
    /\ visible /\ ui_enabled
    /\ Len(workers) < MaxJobs
    /\ \E is_dir \in BOOLEAN :
          IF is_dir THEN run_batch_job("export") ELSE UNCHANGED dialog
    /\ UNCHANGED <<pc, file, data, err, gxt, whm, importer, deref, rsc, job, hashing, frames,
                   outputs>>

\* a click on the run button of the database tab, which is enabled: run_gendb
run_gendb ==
    /\ pc = "dialog"
    /\ visible /\ ui_enabled
    /\ Len(workers) < MaxJobs
    /\ \E is_dir \in BOOLEAN :
          IF is_dir THEN run_batch_job("gendb") ELSE UNCHANGED dialog
    /\ UNCHANGED <<pc, file, data, err, gxt, whm, importer, deref, rsc, job, hashing, frames,
                   outputs>>

\* WhmBatchWorker.run of worker w, the try: no input file and return, the job done,
\* or an exception caught
JobBody(w) ==
    /\ pc = "dialog"
    /\ w <= Len(workers)
    /\ workers[w].at = "run"
    /\ \E o \in JobOutcomes :
          /\ o = "no files" => workers[w].mode = "export"
          /\ workers' = [workers EXCEPT ![w].at = "finally", ![w].outcome = o]
    /\ UNCHANGED <<pc, file, data, err, gxt, whm, importer, deref, rsc, job, hashing, frames,
                   outputs, worker_thread, sys_streams, ui_enabled, posted, visible,
                   close_event>>

\* WhmBatchWorker.run of worker w, the finally: the signal is emitted to the thread
\* of the dialog, and run returns
JobFinally(w) ==
    /\ pc = "dialog"
    /\ w <= Len(workers)
    /\ workers[w].at = "finally"
    /\ workers' = [workers EXCEPT ![w].at = "ended", ![w].emitted = @ + 1]
    /\ posted' = Append(posted, w)
    /\ UNCHANGED <<pc, file, data, err, gxt, whm, importer, deref, rsc, job, hashing, frames,
                   outputs, worker_thread, sys_streams, ui_enabled, visible, close_event>>

\* _on_job_finished, for the signal at the head of the queue
on_job_finished ==
    /\ pc = "dialog"
    /\ posted # <<>>
    /\ sys_streams' = ToOriginal
    /\ ui_enabled' = TRUE
    /\ worker_thread' = <<>>
    /\ posted' = Tail(posted)
    /\ UNCHANGED <<pc, file, data, err, gxt, whm, importer, deref, rsc, job, hashing, frames,
                   outputs, workers, visible, close_event>>

\* closeEvent(event) of the open dialog
closeEvent ==
    /\ pc = "dialog"
    /\ visible
    /\ IF WorkerBusy(worker_thread, workers)
       THEN /\ close_event' = "ignored"
            /\ UNCHANGED <<sys_streams, visible>>
       ELSE /\ sys_streams' = ToOriginal
            /\ close_event' = "accepted"
            /\ visible' = FALSE
    /\ UNCHANGED <<pc, file, data, err, gxt, whm, importer, deref, rsc, job, hashing, frames,
                   outputs, worker_thread, workers, ui_enabled, posted>>

\* the thread of worker w
JobThread(w) == JobBody(w) \/ JobFinally(w)

NextDialog ==
    \/ run_export
    \/ run_gendb
    \/ \E w \in 1..MaxJobs : JobBody(w)
    \/ \E w \in 1..MaxJobs : JobFinally(w)
    \/ on_job_finished
    \/ closeEvent

SpecDialog == InitDialog /\ [][NextDialog]_vars

\* a started thread keeps running, and the event loop of the dialog delivers the
\* signals queued for it
SpecDialogFair ==
    /\ SpecDialog
    /\ \A w \in 1..MaxJobs : WF_vars(JobThread(w))
    /\ WF_vars(on_job_finished)

(***************************************************************************)
(* Round trips of the table formats                                        *)
(***************************************************************************)
\* a written table as the SA reader shows it: keys formatted as 8 hex digits
SAShown(t) == {<<Hex8(e[1]), e[2]>> : e \in PairSet(t)}

\* C1: after an SA document is written with SAGXT.save_as_gxt and read back, the
\* read succeeds, the table names are those of the document, and every table holds
\* exactly the (hash, text) pairs of the document's table.
C1_SARoundTrip ==
    (version = "SA" /\ pc = "opened") =>
        /\ ~err
        /\ Keys(data) = Keys(m_GxtData)
        /\ \A n \in Keys(m_GxtData) :
              PairSet(DictGet(data, n)) = SAShown(DictGet(m_GxtData, n))

\* C2: after an IV document is written with generate_binary and read back, the read
\* succeeds, every table of the document is read with exactly its (hash, text)
\* pairs, and no table is read that the document did not contain.
C2_IVRoundTrip ==
    (version = "IV" /\ pc = "opened") =>
        /\ ~err
        /\ Keys(data) \subseteq Keys(m_GxtData)
        /\ \A n \in Keys(m_GxtData) :
              /\ DictHas(data, n)
              /\ PairSet(DictGet(data, n)) = PairSet(DictGet(m_GxtData, n))

\* C3: a non-empty III mapping written with LCGXT.save_as_gxt is reported as III by
\* getVersion, and reading it back gives the same (key, text) pairs in the same order.
C3_IIIRoundTrip ==
    (version = "III" /\ m_GxtData # <<>>) =>
        /\ pc \in {"saved", "opened"} => getVersion(file) = "III"
        /\ pc = "opened" =>
              /\ ~err
              /\ \E d \in LcTextDocs :
                    LcData(d) = m_GxtData /\ data = <<<<NameMAIN, d>>>>

\* C3 witness: a two-key mapping, one text with a character outside the BMP, read back
C3_Witness ==
    /\ version = "III" /\ pc = "opened" /\ ~err
    /\ Len(m_GxtData) = 2
    /\ \E i \in 1..2 : \E j \in 1..Len(m_GxtData[i][2]) : IsHigh(m_GxtData[i][2][j])

\* the hashes of the TKEY rows of the table written at off under name
SaTKeyHashes(bs, off, name) ==
    LET base == off + (IF name = NameMAIN THEN 0 ELSE 8)
        n == ToInt(UnpackI(bs, base + 4)) \div SizeOfTKEY
    IN [i \in 1..n |-> UnpackI(bs, base + 8 + SizeOfTKEY * (i - 1) + 4)]

\* the hashes of the key table of a GXT2 file
Gxt2KeyHashes(bs) ==
    [i \in 1..ToInt(UnpackI(bs, 4)) |-> UnpackI(bs, 8 + 8 * (i - 1))]

StrictlyAscending(hs) == \A i \in 1..(Len(hs) - 1) : Lt32(hs[i], hs[i + 1])

Range(f) == {f[i] : i \in 1..Len(f)}

\* C4: in a file written by SAGXT.save_as_gxt the TKEY rows of every table, and in a
\* file written by save_gxt2 the rows of the key table, hold the hashes of the
\* written mapping in strictly ascending order, whatever its insertion order.
C4_SortedEmission ==
    (pc = "saved" /\ ~err) =>
        IF version = "SA"
        THEN LET t == parseTables(file, 0)
             IN /\ t.ok
                /\ Len(t.tables) = Len(m_GxtData)
                /\ \A i \in 1..Len(t.tables) :
                      LET name == t.tables[i][1]
                          hs == SaTKeyHashes(file, ToInt(t.tables[i][2]), name)
                      IN /\ DictHas(m_GxtData, name)
                         /\ StrictlyAscending(hs)
                         /\ Range(hs) = Keys(DictGet(m_GxtData, name))
        ELSE LET hs == Gxt2KeyHashes(file)
             IN StrictlyAscending(hs) /\ Range(hs) = Keys(m_GxtData)

\* C4 witness: a written SA file with a table inserted in descending hash order
C4_Witness ==
    /\ version = "SA" /\ pc = "saved"
    /\ \E i \in 1..Len(m_GxtData) :
          LET t == m_GxtData[i][2] IN Len(t) = 2 /\ Lt32(t[2][1], t[1][1])

\* C8: for a non-empty GXT2 document, parse_gxt2 of the saved file returns the
\* document, and saving what was returned gives the bytes of the first file.
C8_Gxt2Idempotent ==
    (version = "V" /\ m_GxtData # <<>>) =>
        /\ pc \in {"opened", "resaved"} => ~err /\ PairSet(data) = PairSet(m_GxtData)
        /\ pc = "resaved" => file = save_gxt2(m_GxtData)

\* C8 witness: a two-entry document in descending hash order saved a second time
C8_Witness ==
    /\ version = "V" /\ pc = "resaved" /\ ~err
    /\ Len(m_GxtData) = 2 /\ Lt32(m_GxtData[2][1], m_GxtData[1][1])
    /\ \E i \in 1..2 : m_GxtData[i][2] = <<>>

(***************************************************************************)
(* The ledger merge rule                                                   *)
(***************************************************************************)
\* the entries the stated rule gives for one line of the ledger: an editable line
\* 0xH=T gives {H, T} exactly when T is not blank and the encoded T does not hash
\* to H; every other line gives nothing
RuleLine(line) ==
    IF MatchesEntry(line)
    THEN AppendEntry(HexInt(SubSeq(line, 3, 10), <<0, 0>>),
                     Unescape(SubSeq(line, 12, Len(line))))
    ELSE <<>>

RECURSIVE RuleText(_)
RuleText(lines) ==
    IF lines = <<>> THEN <<>> ELSE RuleLine(lines[1]) \o RuleText(Tail(lines))

\* C5: LoadText produces an entry {H, T} for an editable line 0xH=T if and only if T
\* is not blank and the FNV-1a hash of the encoded T differs from H; hence for an
\* original text s with hash H the untouched line 0xH=s is excluded and a line 0xH=t
\* with t different from s and not blank is included; commented lines never produce
\* entries, and the accepted entries appear in file order.
C5_LedgerMergeRule ==
    pc = "loaded" =>
        /\ result = RuleText(ledger)
        /\ \A s \in Originals, t \in Translations :
              ledger = <<EditLine(fnv1a_32(s), t)>> =>
                 (result # <<>> <=> (t # s /\ ~IsBlankText(t)))

(***************************************************************************)
(* The translation database                                                *)
(***************************************************************************)
\* the blob of the stated format: the texts in insertion order, a NUL after each
RECURSIVE StatedBlob(_)
StatedBlob(texts) ==
    IF texts = <<>> THEN <<>>
    ELSE Utf8Encode(texts[1][2]) \o <<0>> \o StatedBlob(Tail(texts))

\* the file of the stated format: count, (hash, offset) rows with running offsets,
\* the blob size, the blob
StatedFile(texts) ==
    PackI(Len(texts))
      \o FlatRows([i \in 1..Len(texts) |->
                     <<texts[i][1], U32(Len(StatedBlob(SubSeq(texts, 1, i - 1))))>>])
      \o PackI(Len(StatedBlob(texts)))
      \o StatedBlob(texts)

\* C6: the file GenerateDataBase writes for a list of (hash, text) entries has the
\* stated layout (count, rows in insertion order with running offsets, blob size,
\* blob), and ParseWhmTable decodes it to the same pairs in the same order.
C6_DbRoundTrip ==
    /\ (pc \in {"db", "parsed", "opened"} /\ file = GenerateDataBase(result))
          => file = StatedFile(result)
    /\ (pc = "parsed" /\ file = GenerateDataBase(result))
          => (~err /\ results = result)

\* a database of two entries with the same hash, one text of several bytes with a
\* line break, was generated and decoded
C6_Witness ==
    /\ pc = "parsed"
    /\ file = GenerateDataBase(result)
    /\ Len(result) = 2
    /\ result[1][1] = result[2][1]
    /\ result[1][2] = <<233, 10>>
    /\ results = result

\* the count, the rows and the blob-size field of a database are all in the file
DbComplete(bs) ==
    Len(bs) >= 4 /\ Fits(UnpackI(bs, 0)) /\ 8 + 8 * ToInt(UnpackI(bs, 0)) <= Len(bs)

DbCount(bs) == ToInt(UnpackI(bs, 0))
DbRowHash(bs, i) == UnpackI(bs, 8 * i - 4)
DbRowOffset(bs, i) == UnpackI(bs, 8 * i)

\* the blob: the bytes after the blob-size field, as many as it declares and the
\* file holds
DbBlobOf(bs, size) ==
    SubSeq(bs, 9 + 8 * DbCount(bs),
           IF Fits(size) THEN Min(Len(bs), 8 + 8 * DbCount(bs) + ToInt(size)) ELSE Len(bs))

\* the stated decoding of a row: the marker for an offset outside the blob, else the
\* bytes from the offset to the next NUL or the end of the blob
StatedText(blob, o, marker) ==
    IF ~Fits(o) \/ ToInt(o) >= Len(blob) THEN marker
    ELSE WhmDecodeBytes(SplitNul(SubSeq(blob, ToInt(o) + 1, Len(blob))))

StatedRow(bs, i, marker) ==
    StatedText(DbBlobOf(bs, UnpackI(bs, 4 + 8 * DbCount(bs))), DbRowOffset(bs, i), marker)

\* ParseWhmTable on a complete database does not fail and gives one pair per row,
\* each with the stated text
ParsedAsStated ==
    (pc = "parsed" /\ DbComplete(file)) =>
        /\ ~err
        /\ Len(results) = DbCount(file)
        /\ \A i \in 1..DbCount(file) :
              results[i] = <<DbRowHash(file, i), StatedRow(file, i, BinaryMarker)>>

\* the key open_dat gives row i
DatKey(bs, i) == <<48, 120>> \o Hex8(DbRowHash(bs, i))

\* C7 as stated: decoding a database whose table and blob-size field are complete
\* does not fail; every row whose offset lies outside the blob decodes to the
\* marker, every other row to the bytes from its offset to the next NUL or the blob
\* end; the number of decoded entries equals the declared count (ParseWhmTable and
\* open_dat).
C7_DanglingOffset ==
    /\ ParsedAsStated
    /\ (pc = "opened" /\ DbComplete(file)) =>
          /\ ~err
          /\ Len(data) = 1
          /\ Len(data[1][2]) = DbCount(file)
          /\ \A i \in 1..DbCount(file) :
                /\ DictHas(data[1][2], DatKey(file, i))
                /\ DictGet(data[1][2], DatKey(file, i)) = StatedRow(file, i, BINARY)

\* C7 amended: as stated for ParseWhmTable; open_dat keeps one entry per distinct
\* hash, with the stated text of the last row that carries the hash, so the number
\* of its entries is the number of distinct hashes in the table.
C7_DanglingOffsetAmended ==
    /\ ParsedAsStated
    /\ (pc = "opened" /\ DbComplete(file)) =>
          /\ ~err
          /\ Len(data) = 1
          /\ Len(data[1][2]) = Cardinality({DbRowHash(file, i) : i \in 1..DbCount(file)})
          /\ \A i \in 1..DbCount(file) :
                /\ DictHas(data[1][2], DatKey(file, i))
                /\ (\A j \in (i + 1)..DbCount(file) : DbRowHash(file, j) # DbRowHash(file, i))
                      => DictGet(data[1][2], DatKey(file, i)) = StatedRow(file, i, BINARY)

\* open_dat read a table of two rows with the same hash, the first offset inside the
\* blob and the second outside: one entry, the marker
C7_Witness ==
    /\ pc = "opened"
    /\ DbComplete(file)
    /\ DbCount(file) = 2
    /\ DbRowHash(file, 1) = DbRowHash(file, 2)
    /\ StatedRow(file, 1, BINARY) = <<65>>
    /\ ~Fits(DbRowOffset(file, 2))
    /\ data = <<<<whm_table, <<<<DatKey(file, 2), BINARY>>>>>>>>

(***************************************************************************)
(* Extraction from an arena                                                *)
(***************************************************************************)
\* the texts of the data nodes of a page, those of the children before the node's
RECURSIVE DataTexts(_)
RECURSIVE KidsTexts(_)
KidsTexts(kids) ==
    IF kids = <<>> THEN <<>> ELSE DataTexts(kids[1]) \o KidsTexts(Tail(kids))
DataTexts(tree) ==
    KidsTexts(tree[3]) \o (IF tree[1] = Node_HtmlDataNode THEN <<tree[2]>> ELSE <<>>)

\* C9: for an arena whose body pointer resolves to a node tree with exactly one data
\* node, whose text pointer resolves to a NUL-terminated accepted string s,
\* ExtractWhmStrings started with an empty hash set returns exactly one entry,
\* {FNV1a32(s), s}.
C9_EndToEnd ==
    [][(/\ pc = "arena"
        /\ hashes = {}
        /\ block \in {Arena(page, Cpu_Type, Len(page[3])), Arena(page, Cpu_Type, 0)}
        /\ Len(DataTexts(page)) = 1
        /\ validate_string(DataTexts(page)[1]))
       => container' = <<<<fnv1a_32(DataTexts(page)[1]), DataTexts(page)[1]>>>>]_vars

\* the one data node "Hi" lies two levels below a body that is a container with a
\* text pointer of its own, beside a node of an unknown type; one entry came out
C9_Witness ==
    /\ pc = "extracted"
    /\ page = <<<<0, 0>>, Hi,
                <<<<<<0, 0>>, <<>>, <<<<Node_HtmlDataNode, Hi, <<>>>>>>>>,
                  <<<<0, 7>>, Hi, <<>>>>>>>>
    /\ block = Arena(page, Cpu_Type, 2)
    /\ container = <<<<fnv1a_32(Hi), Hi>>>>

(***************************************************************************)
(* The candidate filter                                                    *)
(***************************************************************************)
\* v holds a byte in A-Z, a-z or >= 0xC0
HasLetter(v) ==
    \E i \in 1..Len(v) : v[i] \in (65..90) \cup (97..122) \/ v[i] >= 192

\* every byte of v is in {A-Z, a-z, 0-9, '.', '%', '@', '-', '_'}
UrlBytesOnly(v) ==
    \A i \in 1..Len(v) : v[i] \in (65..90) \cup (97..122) \cup (48..57) \cup {46, 37, 64, 45, 95}

\* C10 as stated: TryAppendString accepts a non-empty v if and only if v has a letter
\* and is not a URL, a URL being a string of URL bytes that contains some '.' that
\* is neither its first nor its last byte.
C10_CandidateFilter ==
    (pc = "tried" /\ ptr # <<>>) =>
        (container # <<>> <=>
            (HasLetter(ptr) /\ ~(UrlBytesOnly(ptr) /\ \E i \in 2..(Len(ptr) - 1) : ptr[i] = 46)))

\* C10 amended: a URL is a string of URL bytes that contains a '.' and whose first
\* and last bytes are not '.'; an accepted v is appended as {FNV1a32(v), v}.
C10_CandidateFilterAmended ==
    (pc = "tried" /\ ptr # <<>>) =>
        IF HasLetter(ptr)
           /\ ~(/\ UrlBytesOnly(ptr)
                /\ \E i \in 1..Len(ptr) : ptr[i] = 46
                /\ ptr[1] # 46
                /\ ptr[Len(ptr)] # 46)
        THEN container = <<<<fnv1a_32(ptr), ptr>>>>
        ELSE container = <<>>

\* ".A.A" was tried: it has an inner '.', begins with '.', and was accepted
C10_Witness ==
    /\ pc = "tried"
    /\ ptr = <<46, 65, 46, 65>>
    /\ container = <<<<fnv1a_32(ptr), ptr>>>>

(***************************************************************************)
(* Deduplication                                                           *)
(***************************************************************************)
\* the entries emitted under the current hash set: with ExportHtml those of the
\* files written and of the current file, with the worker those of the current file
Emitted == IF pc = "export" THEN exported \o container ELSE container

\* the calls whose candidate is accepted by the filter
AcceptedCalls == {k \in 1..Len(calls) : calls[k] # <<>> /\ validate_string(calls[k])}

\* C11: after any sequence of TryAppendString calls that share one hash set, no two
\* emitted entries have the same hash, every emitted hash is in the set, the entry
\* emitted for a hash is the first accepted string with that hash in call order, and
\* a later accepted string with a recorded hash changes neither the set nor the
\* earlier entry (the set holds the hashes of the accepted calls and nothing else,
\* and the entries are the first accepted strings in call order).
C11_Deduplication ==
    pc \in {"export", "worker"} =>
        /\ \A i, j \in 1..Len(Emitted) : Emitted[i][1] = Emitted[j][1] => i = j
        /\ \A i \in 1..Len(Emitted) : Emitted[i][1] \in hashes
        /\ hashes = {fnv1a_32(calls[k]) : k \in AcceptedCalls}
        /\ \A i \in 1..Len(Emitted) :
              \E k \in AcceptedCalls :
                 /\ Emitted[i] = <<fnv1a_32(calls[k]), calls[k]>>
                 /\ \A m \in AcceptedCalls : fnv1a_32(calls[m]) = Emitted[i][1] => k <= m
        /\ \A k \in AcceptedCalls : \E i \in 1..Len(Emitted) : Emitted[i][1] = fnv1a_32(calls[k])

\* "zinke" was emitted in one file of an ExportHtml run; in the next file "altarage",
\* which has the same hash, and "zinke" again were dropped
C11_Witness ==
    /\ pc = "export"
    /\ calls = <<Zinke, Altarage, Zinke>>
    /\ exported = <<<<fnv1a_32(Zinke), Zinke>>>>
    /\ container = <<>>
    /\ hashes = {fnv1a_32(Altarage)}

(***************************************************************************)
(* Hash uniqueness and collision rejection in the text loaders             *)
(***************************************************************************)
\* the table the loader fills, the hash of one of its entries, and the hash the
\* loader resolves a key to
ImportedTable == IF pc = "std" THEN MainOf(data) ELSE MainOf(m_GxtData)
EntryHash(e) == IF pc = "sa" THEN e[1] ELSE HashOfString(e[1])
ResolvedHash(k) ==
    IF pc = "sa" THEN SaHashKey(k)
    ELSE IF pc = "std" THEN HashOfString(StdFinalKey(StdKey(k)))
    ELSE HashOfString(IvHashStr(k))

UniqueHashes ==
    \A i, j \in 1..Len(ImportedTable) :
        EntryHash(ImportedTable[i]) = EntryHash(ImportedTable[j]) => i = j

\* the line read in this step resolves to a hash that is in the table and that an
\* earlier line with another plaintext key resolved to
CollidingLine ==
    /\ Len(content') = Len(content) + 1
    /\ \E e \in PairSet(ImportedTable) : EntryHash(e) = ResolvedHash(content'[Len(content')][1])
    /\ \E i \in 1..Len(content) :
          /\ content[i][1] # content'[Len(content')][1]
          /\ ResolvedHash(content[i][1]) = ResolvedHash(content'[Len(content')][1])

\* C12: after any sequence of lines loaded into one table no two entries of the table
\* have the same hash, and a line whose key resolves to a hash already in the table
\* for a different plaintext key is rejected and reported: the table is left as it
\* was (the stored text is not replaced) and the operator is told about the line.
C12_CollisionRejected ==
    /\ []UniqueHashes
    /\ [][CollidingLine =>
            /\ ImportedTable' = ImportedTable
            /\ all_errors' = Append(all_errors, content'[Len(content')])]_vars

(***************************************************************************)
(* Truncated blocks                                                        *)
(***************************************************************************)
\* the file starts with a TKEY header; the sizes the two headers declare
TKeySize == ToInt(UnpackI(file, 4))
TDatSize == ToInt(UnpackI(file, 8 + TKeySize + 4))

IncompleteTKeyHeader == Len(file) < 8
OverlongTKey == Len(file) >= 8 /\ 8 + TKeySize > Len(file)
IncompleteTDatHeader ==
    Len(file) >= 8 /\ 8 + TKeySize <= Len(file) /\ Len(file) < 8 + TKeySize + 8
OverlongTDat ==
    /\ Len(file) >= 8
    /\ 8 + TKeySize + 8 <= Len(file)
    /\ 8 + TKeySize + 8 + TDatSize > Len(file)

TruncatedBlock ==
    IncompleteTKeyHeader \/ OverlongTKey \/ IncompleteTDatHeader \/ OverlongTDat

\* C13: for every version reader (III, VC, SA, IV), a file in which the header of
\* the TKEY or of the TDAT block is incomplete, or in which the size declared for
\* one of the two blocks exceeds the bytes that remain, makes parseTKeyTDat raise:
\* it never returns a list of entries.
C13_TruncatedRaises ==
    (pc = "parsed" /\ TruncatedBlock) => (err /\ data = <<>>)

(***************************************************************************)
(* Version detection                                                       *)
(***************************************************************************)
\* the first two little-endian 16-bit words of the file, and whether the file has
\* the four bytes tag at the 0-based offset p
Word1 == file[1] + 256 * file[2]
Word2 == file[3] + 256 * file[4]
TagAt(p, tag) == Len(file) >= p + 4 /\ \A i \in 1..4 : file[p + i] = tag[i]

StatedVersion ==
    IF Len(file) >= 4 /\ Word1 = 4 /\ Word2 = 16 THEN "IV"
    ELSE IF Len(file) >= 4 /\ Word1 = 4 /\ Word2 = 8 /\ TagAt(4, TagTABL) THEN "SA"
    ELSE IF TagAt(0, TagTABL) THEN "VC"
    ELSE IF TagAt(0, TagTKEY) THEN "III"
    ELSE "None"

\* C14: getVersion returns IV iff the first two little-endian 16-bit words are
\* (4, 16); otherwise SA iff they are (4, 8) and bytes 4..7 are 'TABL'; otherwise VC
\* iff the file begins with 'TABL'; otherwise III iff it begins with 'TKEY';
\* otherwise None.  When it yields None, open_gxt reports a failure, guesses no
\* version and leaves the loaded document unchanged; parse_gxt2 raises (open_gxt2
\* reports a failure) for any file that does not begin with '2TXG'.
C14_VersionDetection ==
    /\ [](getVersion(file) = StatedVersion)
    /\ [][/\ (pc' = "opened" /\ StatedVersion = "None")
               => (err' /\ version' = version /\ data' = data)
          /\ (pc' = "opened_gxt2" /\ ~TagAt(0, Tag2TXG))
               => (~parse_gxt2(file).ok /\ err' /\ version' = version /\ data' = data)]_vars

\* a document of version SA is loaded and a file of zeros was refused by open_gxt
C14_Witness ==
    /\ pc = "opened"
    /\ StatedVersion = "None"
    /\ file # <<>>
    /\ err
    /\ version = "SA"
    /\ data # <<>>

(***************************************************************************)
(* Tagged references: the split, the bounds checks, the span of an array   *)
(***************************************************************************)
\* the reference under test: its tag, its offset, the declared count and capacity
RefTag == PtrT(pgptr[1])
RefOffset == PtrO(pgptr[1])
RefCount == pgptr[2]
RefSize == pgptr[3]

\* C15: the tag of a 32-bit value v is v >> 28, in 0..15, its offset is v mod 2^28,
\* and v = tag * 2^28 + offset (0x5000000A has tag 5 and offset 0xA); a pgPtr or a
\* pgObjectArray whose tag is not 5 dereferences to None, respectively to the empty
\* span, for every offset and every arena.
C15_TaggedRefSplit ==
    /\ RefTag \in 0..15
    /\ RefOffset \in 0..(2^28 - 1)
    /\ pgptr[1] = <<RefTag * 4096 + RefOffset \div 65536, RefOffset % 65536>>
    /\ pgptr[1] = <<20480, 10>> => (RefTag = 5 /\ RefOffset = 10)
    /\ (pc \in {"node", "document", "string"} /\ RefTag # 5) => located = <<>>
    /\ (pc = "span" /\ RefTag # 5) => located = << <<>> >>

\* an array with tag 6 whose two elements lie inside the arena gave the empty span
C15_Witness ==
    /\ pc = "span"
    /\ RefTag = 6
    /\ RefOffset = 8
    /\ RefCount = 2
    /\ Len(block) = PageSize
    /\ located = << <<>> >>

\* the arena has a zero byte at or after the offset
Terminated == \E i \in (RefOffset + 1)..Len(block) : block[i] = 0

\* the string found starts at the offset, holds no zero byte and is followed by one
StringAtOffset(s) ==
    /\ RefOffset + Len(s) + 1 <= Len(block)
    /\ \A i \in 1..Len(s) : s[i] = block[RefOffset + i] /\ s[i] # 0
    /\ block[RefOffset + Len(s) + 1] = 0

StructSize == IF pc = "node" THEN sizeof_CHtmlNode ELSE sizeof_CHtmlDocument

\* C16: for every arena and every reference with tag 5, locate returns None when
\* the offset is at or beyond the arena length; a string lookup returns exactly the
\* bytes from the offset up to, and without, the first zero byte at or after the
\* offset, and None when there is no zero byte between the offset and the end of
\* the arena; a structure lookup returns None when the structure would extend past
\* the end of the arena.  Nothing outside the arena is read.
C16_BoundsChecked ==
    (RefTag = 5 /\ pc \in {"node", "document", "string"}) =>
        /\ RefOffset >= Len(block) => located = <<>>
        /\ pc = "string" =>
              /\ (located = <<>>) = (RefOffset >= Len(block) \/ ~Terminated)
              /\ located # <<>> => StringAtOffset(located[1])
        /\ pc \in {"node", "document"} =>
              /\ (located = <<>>) = (RefOffset >= Len(block)
                                     \/ RefOffset + StructSize > Len(block))
              /\ located # <<>> =>
                    located[1] = RefOffset /\ located[1] + StructSize <= Len(block)

\* a node that would end one byte after the arena was refused
C16_Witness ==
    /\ pc = "node"
    /\ RefTag = 5
    /\ RefOffset = 41
    /\ Len(block) = PageSize
    /\ located = <<>>

Larger(a, b) == IF a > b THEN a ELSE b
Smaller(a, b) == IF a < b THEN a ELSE b
SpanFits(n) == RefOffset + n * sizeof_pgPtr <= Len(block)

\* C17: for every arena and every array with tag 5, count c and capacity s, get_span
\* returns max(c, s) elements when offset + max(c, s) * elementSize does not exceed
\* the arena length; otherwise min(c, s) elements when those fit; otherwise the
\* empty span.  Every returned element lies inside the arena.
C17_ArrayRefClamping ==
    (pc = "span" /\ RefTag = 5 /\ block # <<>>) =>
        /\ Len(located[1]) =
              (IF SpanFits(Larger(RefCount, RefSize)) THEN Larger(RefCount, RefSize)
               ELSE IF SpanFits(Smaller(RefCount, RefSize)) THEN Smaller(RefCount, RefSize)
               ELSE 0)
        /\ \A i \in 1..Len(located[1]) :
              /\ SpanFits(i)
              /\ located[1][i] = UnpackI(block, RefOffset + sizeof_pgPtr * (i - 1))

(***************************************************************************)
(* The size of the arena                                                   *)
(***************************************************************************)
\* bit k of the flags word of the header, and the number in its bits a..b
FlagsWord == UnpackI(file, 8)
FlagBit(k) ==
    IF k < 16 THEN (FlagsWord[2] \div 2^k) % 2 ELSE (FlagsWord[1] \div 2^(k - 16)) % 2

RECURSIVE FlagField(_, _)
FlagField(a, b) == IF b < a THEN 0 ELSE FlagBit(a) + 2 * FlagField(a + 1, b)

\* the size of the region whose fields start at bit a
RegionSize(a) ==
    2^(FlagField(a + 11, a + 14) + 8)
      * (FlagBit(a) + 2 * FlagBit(a + 1) + 4 * FlagBit(a + 2) + 8 * FlagBit(a + 3)
         + 16 * FlagField(a + 4, a + 10))

\* C18: for a complete header and inflated data, UnpackWhm returns an arena whose
\* length is exactly virtualSize + physicalSize, each region size being
\* (1 << (exponent + 8)) * (f1 + 2*f2 + 4*f4 + 8*f8 + 16*count16) with the fields in
\* bits 0-3 / 4-10 / 11-14 (virtual) and 15-18 / 19-25 / 26-29 (physical); shorter
\* data is padded with zeros, longer data is cut, the common prefix is kept, and a
\* length mismatch is a warning, not a failure (virtual1xPageFlag alone with
\* exponent 0 gives 256).
C18_ArenaSize ==
    (pc = "unpacked" /\ Len(file) = sizeof_rsc_header /\ inflated # <<>>) =>
        /\ ~err
        /\ Len(block) = RegionSize(0) + RegionSize(15)
        /\ \A i \in 1..Len(block) :
              block[i] = (IF i <= Len(inflated[1]) THEN inflated[1][i] ELSE 0)
        /\ stderr = (IF Len(inflated[1]) # RegionSize(0) + RegionSize(15)
                     THEN <<"size mismatch">> ELSE <<>>)
        /\ FlagsWord = <<0, 1>> => Len(block) = 256

\* virtual1xPageFlag alone, 300 bytes inflated: the arena is their first 256 bytes,
\* and a warning was printed
C18_Witness ==
    /\ pc = "unpacked"
    /\ Len(file) = sizeof_rsc_header
    /\ FlagsWord = <<0, 1>>
    /\ inflated = <<Payload(PageSize + 44)>>
    /\ block = Payload(PageSize)
    /\ stderr = <<"size mismatch">>
    /\ ~err

(***************************************************************************)
(* C19: nodes of an unknown kind                                           *)
(***************************************************************************)
\* the walk the statement describes, on a tree <<kind, text, children>>: a node of an
\* unknown kind contributes nothing, neither its own text nor its descendants'
RECURSIVE SkippingWalk(_, _)
RECURSIVE SkippingKids(_, _)

SkippingKids(kids, st) ==
    IF kids = <<>> THEN st ELSE SkippingKids(Tail(kids), SkippingWalk(kids[1], st))

SkippingWalk(tree, st) ==
    IF tree[1] \notin HtmlNodeType THEN st
    ELSE IF tree[1] = Node_HtmlDataNode
    THEN TryAppendString(SkippingKids(tree[3], st), tree[2])
    ELSE SkippingKids(tree[3], st)

\* the walk with the children taken before the kind of the node is looked at: a node
\* of an unknown kind contributes what its descendants contribute
RECURSIVE PostOrderWalk(_, _)
RECURSIVE PostOrderKids(_, _)

PostOrderKids(kids, st) ==
    IF kids = <<>> THEN st ELSE PostOrderKids(Tail(kids), PostOrderWalk(kids[1], st))

PostOrderWalk(tree, st) ==
    IF tree[1] = Node_HtmlDataNode
    THEN TryAppendString(PostOrderKids(tree[3], st), tree[2])
    ELSE PostOrderKids(tree[3], st)

\* the number of nodes of an unknown kind in a tree
RECURSIVE UnknownKinds(_)
RECURSIVE UnknownKindsOf(_)

UnknownKindsOf(kids) ==
    IF kids = <<>> THEN 0 ELSE UnknownKinds(kids[1]) + UnknownKindsOf(Tail(kids))

UnknownKinds(tree) ==
    (IF tree[1] \notin HtmlNodeType THEN 1 ELSE 0) + UnknownKindsOf(tree[3])

\* the page is laid out whole in the arena
WholeArena == block = Arena(page, Cpu_Type, Len(page[3]))

\* C19: when the walk meets a node whose kind is not one of 0..3, no text of that
\* node or of its descendants is added to the result, a diagnostic is printed, the
\* text of every node outside that subtree is extracted and the walk completes
C19_UnknownKindSkipped ==
    [][ExtractWhm /\ WholeArena /\ UnknownKinds(page) > 0
         => /\ container' = SkippingWalk(page, <<<<>>, hashes>>)[1]
            /\ Len(stderr') > 0
            /\ pc' = "extracted"]_vars

\* what the walk does instead: the children are walked first, then a node of an
\* unknown kind prints one warning and adds no text of its own
UnknownKindOwnTextSkipped ==
    [][ExtractWhm /\ WholeArena
         => /\ container' = PostOrderWalk(page, <<<<>>, hashes>>)[1]
            /\ Len(stderr') = UnknownKinds(page)
            /\ pc' = "extracted"]_vars

\* a node of an unknown kind over a data node whose text was extracted
UnknownKindOverText ==
    /\ pc = "extracted"
    /\ WholeArena
    /\ \E i \in 1..Len(page[3]) :
          /\ page[3][i][1] \notin HtmlNodeType
          /\ page[3][i][3] = <<<<Node_HtmlDataNode, <<201>>, <<>>>>>>
    /\ \E j \in 1..Len(container) : container[j][2] = <<201>>
    /\ stderr # <<>>

(***************************************************************************)
(* C20: a failing file does not stop the batch                             *)
(***************************************************************************)
\* the batch ran on the thread pool (the worker emits signals, ExportHtml prints only)
OnPool == signals # <<>>

\* file i fails: it cannot be read or inflated, its arena has no body, or its .txt
\* cannot be written when there is something to write (ExportHtml writes nothing
\* for a page whose only text an earlier page already gave)
WriteAttempted(i) ==
    OnPool \/ \A j \in 1..(i - 1) : folder[j] \notin {"good", "unwritable"}

Fails(i) ==
    \/ folder[i] \in {"unreadable", "short", "bad deflate", "no body"}
    \/ folder[i] = "unwritable" /\ WriteAttempted(i)

\* file i was processed: its line was printed and its turn of the loop is over
Processed(i) ==
    /\ \E k \in 1..Len(stdout) : stdout[k] = <<"processing", i>>
    /\ IF OnPool THEN futures[i][1] = "done" ELSE cursor >= i

\* the progress reports so far: the signals of the worker, the lines of ExportHtml
ProgressReports ==
    IF OnPool THEN {k \in 1..Len(signals) : signals[k][1] = "progress"}
    ELSE {k \in 1..Len(stdout) : stdout[k][1] = "processing"}

\* the failure of file i was reported: a diagnostic names it
Reported(i) == \E k \in 1..Len(stderr) : stderr[k][2] = i

\* a page with a text of its own reached the output
Written(i) ==
    \E k \in 1..Len(exported) :
       exported[k][2] = (IF folder[i] = "other" THEN <<201>> ELSE Hi)

BatchDone ==
    /\ pc = "finished"
    /\ \A i \in 1..Len(folder) : Processed(i)
    /\ Cardinality(ProgressReports) = Len(folder)
    /\ \A i \in 1..Len(folder) : Fails(i) => Reported(i)
    /\ IF OnPool THEN signals[Len(signals)][1] = "finished"
       ELSE stdout[Len(stdout)] = <<"done", Len(folder)>>

\* C20: in a batch over N files, on the thread pool of WhmBatchWorker or in the loop
\* of ExportHtml, a file that cannot be read, inflated, walked or written does not
\* keep any other file from being processed: eventually every file is processed,
\* progress was reported N times, each failure was reported and the batch finished
C20_BatchIsolation == <>BatchDone

\* a finished batch of three files whose first fails and whose last was written
C20_Witness ==
    /\ BatchDone
    /\ Len(folder) = MaxFiles
    /\ Fails(1) /\ Reported(1)
    /\ folder[MaxFiles] = "other" /\ Written(MaxFiles)

\* the same in each of the two ways to run a batch, with a write error in between
FinishedOnPool == C20_Witness /\ OnPool /\ folder[2] = "unwritable"
FinishedInSequence == C20_Witness /\ ~OnPool /\ folder[2] = "unwritable"

\* what a finished batch leaves: no file was processed twice, nothing was raised, and
\* the text of each page that can be written is in the output, but for ExportHtml
\* after a write error: the hashes of the page that was not written stay in the set,
\* and a later page with the same text writes nothing
BatchOutput ==
    pc = "finished" =>
       /\ \A i \in 1..Len(folder) :
             Cardinality({k \in 1..Len(stdout) : stdout[k] = <<"processing", i>>}) = 1
       /\ \A i \in 1..Len(folder) :
             folder[i] \in {"good", "other"} =>
                \/ Written(i)
                \/ ~OnPool /\ folder[i] = "good" /\ \E j \in 1..(i - 1) : folder[j] = "unwritable"
       /\ ~err

(***************************************************************************)
(* C21: the results of the pool's work on each file                        *)
(***************************************************************************)
\* the entries file i gives when it is walked alone
OwnEntries(i) == ExtractWhmFile(folder[i], {}, Zeros(4)).container

\* the files whose ledger was written: each page of the folder holds one text, so
\* each ledger holds one entry
LedgersWritten == Len(exported)

\* the count that finished_with_details carried
EmittedCount == signals[Len(signals)][2]

\* every entry written is an entry some file of the folder gives on its own, and
\* every file that can be written has its entries in the output
EntriesPerFile ==
    /\ \A k \in 1..Len(exported) :
          \E i \in 1..Len(folder) :
             Disk(folder[i]).writable /\ exported[k] \in Range(OwnEntries(i))
    /\ \A i \in 1..Len(folder) :
          Disk(folder[i]).writable => Range(OwnEntries(i)) \subseteq Range(exported)

\* C21: in a batch on the thread pool, under every interleaving, the count emitted
\* with the finished signal is the number of files whose ledger was written, and
\* the entries written for a file depend on that file only
C21_IndependentResults ==
    pc = "finished" /\ OnPool => EmittedCount = LedgersWritten /\ EntriesPerFile

\* the entries alone
PoolEntriesPerFile == pc = "finished" /\ OnPool => EntriesPerFile

\* the count is never above the number of files that gave a text
CountAtMostTexts ==
    pc = "finished" /\ OnPool
        => EmittedCount <= Cardinality({i \in 1..Len(folder) : OwnEntries(i) # <<>>})

(***************************************************************************)
(* C22: the values of the four hash functions                              *)
(***************************************************************************)
\* a value in 0 .. 2^32 - 1, as its two halves
InRange32(w) == Len(w) = 2 /\ w[1] \in 0..65535 /\ w[2] \in 0..65535

\* what each function is said to return on the empty input
EmptyHash(fn) ==
    IF fn = "fnv1a_32" THEN FNV_OFFSET_BASIS_32
    ELSE IF fn = "gta_sa_hash" THEN <<65535, 65535>>
    ELSE <<0, 0>>

\* C22: each of the four hash functions returns, for every input, a value in
\* 0 .. 2^32 - 1, and on the empty input 0x811C9DC5 (fnv1a_32), 0 (gta4_gxt_hash),
\* 0 (joaat) and 0xFFFFFFFF (gta_sa_hash)
C22_HashSuite ==
    pc = "hashed" =>
       /\ digest.ok
       /\ InRange32(digest.value)
       /\ text_key = <<>> => digest.value = EmptyHash(digest.fn)

\* the same where a value is returned
HashValues ==
    pc = "hashed" /\ digest.ok =>
       /\ InRange32(digest.value)
       /\ text_key = <<>> => digest.value = EmptyHash(digest.fn)

\* the three functions that never raise
HashTotal == pc = "hashed" /\ digest.fn # "gta_sa_hash" => digest.ok


\* ---- C23 ----

\* the reflected CRC-32 of polynomial 0xEDB88320, bit by bit, seed 0xFFFFFFFF,
\* without the final complement
RECURSIVE Crc32Entry(_, _)
Crc32Entry(c, n) ==
    IF n = 0 THEN c
    ELSE Crc32Entry(IF c[2] % 2 = 1 THEN Xor32(Shr32(c, 1), <<60856, 33568>>)
                    ELSE Shr32(c, 1), n - 1)

RECURSIVE JamCrcFrom(_, _)
JamCrcFrom(bs, c) ==
    IF bs = <<>> THEN c
    ELSE JamCrcFrom(Tail(bs), Crc32Entry(Xor32(c, <<0, bs[1] % 256>>), 8))

JamCrc(bs) == JamCrcFrom(bs, <<65535, 65535>>)

IsAscii(key) == \A i \in 1..Len(key) : key[i] < 128

\* C23: for every key the hash of the key, of its upper case and of its lower
\* case are one value, and that value is the reflected CRC-32 (0xEDB88320,
\* seed 0xFFFFFFFF, no final complement) of the upper-cased key
C23_CaseInsensitive ==
    pc = "cases" =>
       /\ digest.key.ok
       /\ digest.upper = digest.key
       /\ digest.lower = digest.key
       /\ digest.key.value = JamCrc(StrUpper(text_key))

\* for keys of ASCII characters the statement holds
AsciiCaseInsensitive ==
    pc = "cases" /\ IsAscii(text_key) =>
       /\ digest.key.ok
       /\ digest.upper = digest.key
       /\ digest.lower = digest.key
       /\ digest.key.value = JamCrc(StrUpper(text_key))

\* every entry of the table is the CRC of its index
TableIsReflectedCrc ==
    \A idx \in 0..255 : CRC32_TABLE(idx) = Crc32Entry(<<0, idx>>, 8)

\* whenever the key hashes, its upper case hashes to the same value, which is
\* the CRC of the low bytes of the upper-cased key
UpperCaseSame ==
    pc = "cases" /\ digest.key.ok =>
       /\ digest.upper = digest.key
       /\ digest.key.value = JamCrc(StrUpper(text_key))

\* ---- C24 ----

\* the key and the text of the line the loader was given
LoadedKey == content[1][1]
LoadedText == content[1][2]

\* the key is written as a literal hash: 1 to 8 hex digits (SA), '0x' and hex
\* digits (IV), '0x' and hex digits or a string of digits (V)
IsLiteralHash(k) ==
    IF pc = "sa" THEN Len(k) <= 8 /\ AllHex(k)
    ELSE IF pc = "iv" THEN Int16Takes(k)
    ELSE Int16Takes(k) \/ str_isdigit(k)

\* the number a literal hash denotes
LiteralValue(k) ==
    IF pc = "sa" THEN HexInt(k, <<0, 0>>)
    ELSE IF Int16Takes(k) THEN Int16(k)
    ELSE DecInt(k, 0)

\* a key that starts like a literal hash of V and is none: parse_txt warns of an
\* invalid key and leaves the line out
IsMalformedLiteral(k) == pc = "v" /\ StartsWith0x(k) /\ ~Int16Takes(k)

\* the hash function of the version
VersionHash(k) ==
    IF pc = "sa" THEN gta_sa_hash(k)
    ELSE IF pc = "iv" THEN gta4_gxt_hash(k)
    ELSE joaat(k)

\* the hash the entry is expected under
ExpectedHash(k) == IF IsLiteralHash(k) THEN LiteralValue(k) ELSE VersionHash(k)

\* the hashes the loaded table holds, as numbers
StoredEntries ==
    IF pc = "v" THEN {<<e[1], e[2]>> : e \in PairSet(data)}
    ELSE IF pc = "sa" THEN {<<e[1], e[2]>> : e \in PairSet(MainOf(m_GxtData))}
    ELSE {<<Int16(e[1]), e[2]>> : e \in PairSet(MainOf(m_GxtData))}

\* C24: a plaintext key the grammar admits is stored under the version's hash of
\* the key, a literal hash under its number
C24_KeyRederived ==
    content # <<>> /\ ~IsMalformedLiteral(LoadedKey) =>
       /\ ~err
       /\ StoredEntries = {<<ExpectedHash(LoadedKey), LoadedText>>}

\* the statement for keys of ASCII characters
AsciiKeyRederived ==
    content # <<>> /\ ~IsMalformedLiteral(LoadedKey) /\ IsAscii(LoadedKey) =>
       /\ ~err
       /\ StoredEntries = {<<ExpectedHash(LoadedKey), LoadedText>>}

\* whenever the loader returns a table, the entry is in it under the expected hash
LoadedKeyRederived ==
    content # <<>> /\ ~IsMalformedLiteral(LoadedKey) /\ ~err =>
       StoredEntries = {<<ExpectedHash(LoadedKey), LoadedText>>}

\* ---- C25 ----

\* the texts of a tree in post-order: those of the children's subtrees in the order
\* of the child array, then the node's own text if the node is a data node
RECURSIVE PostOrderTexts(_)
RECURSIVE PostOrderTextsOf(_)

PostOrderTextsOf(kids) ==
    IF kids = <<>> THEN <<>> ELSE PostOrderTexts(kids[1]) \o PostOrderTextsOf(Tail(kids))

PostOrderTexts(tree) ==
    PostOrderTextsOf(tree[3]) \o (IF tree[1] = Node_HtmlDataNode THEN <<tree[2]>> ELSE <<>>)

\* the texts of a list that are accepted, offered one after the other
RECURSIVE AcceptInOrder(_, _)
AcceptInOrder(texts, st) ==
    IF texts = <<>> THEN st ELSE AcceptInOrder(Tail(texts), TryAppendString(st, texts[1]))

\* C25: the entries are the accepted texts in post-order, children before the node
\* itself, and only data nodes contribute a text
C25_PostOrder ==
    [][ExtractWhm /\ WholeArena
         => container' = AcceptInOrder(PostOrderTexts(page), <<<<>>, hashes>>)[1]]_vars

\* a data node over two children, a data node and a table element with a text: the
\* child's text was emitted first, the node's own text last, the element's not
C25_Witness ==
    /\ pc = "extracted"
    /\ WholeArena
    /\ page[1] = Node_HtmlDataNode
    /\ Len(page[3]) = 2
    /\ page[3][1] = <<Node_HtmlDataNode, <<72>>, <<>>>>
    /\ page[3][2][1] = <<0, 3>> /\ page[3][2][2] = <<72>>
    /\ Len(container) = 2
    /\ container[1][2] = <<72>>
    /\ container[2][2] = page[2]

\* ---- C26 ----

\* the layout of the file read back: rows of 12 bytes (III, VC) or 8 bytes (SA, IV)
\* after the 8 bytes of the TKEY header, then the TDAT header and its bytes
RowBytes == IF version \in {"SA", "IV"} THEN 8 ELSE 12
DeclaredOffset(k) == UnpackI(file, 8 + RowBytes * (k - 1))
TdatBytes == SubSeq(file, 8 + 2 * RowBytes + 8 + 1, Len(file))
TdatUnits == IF version = "SA" THEN TdatBytes ELSE UnitsOf(TdatBytes)

\* the units from unit index start up to the first null unit, or up to the end
RECURSIVE UnitsUpToNull(_, _)
UnitsUpToNull(units, start) ==
    IF start >= Len(units) \/ units[start + 1] = 0 THEN <<>>
    ELSE <<units[start + 1]>> \o UnitsUpToNull(units, start + 1)

\* the value the entry with a declared offset is to decode to, the empty string for
\* an offset at or beyond the end of the block
ExtentAt(off) ==
    IF off[1] > 0 \/ off[2] \div UnitWidth(version) >= Len(TdatUnits) THEN <<>>
    ELSE UnitsUpToNull(TdatUnits, off[2] \div UnitWidth(version))

ExtentStopsAtNull ==
    /\ pc = "parsed"
    /\ version = "IV"
    /\ TdatUnits = <<65, 0, 66>>
    /\ DeclaredOffset(1) = U32(0)
    /\ MainOf(data)[1][2] = <<65>>

\* ---- C27 ----

\* the entry the ledger was written for
OriginalHash == container[1][1]
OriginalText == Windows1252ToUtf8(container[1][2])

\* the three lines of the entry: ';0xH=' and the escaped original without a line
\* break in it, '0xH=', and an empty line
ThreeLines ==
    /\ Len(ledger) = 3
    /\ SubSeq(ledger[1], 1, 12) = <<59, 48, 120>> \o Hex8(OriginalHash) \o <<61>>
    /\ \A i \in 13..Len(ledger[1]) : ledger[1][i] \notin {10, 13}
    /\ ledger[2] = <<48, 120>> \o Hex8(OriginalHash) \o <<61>>
    /\ ledger[3] = <<>>

\* C27: ExportText writes three lines for the entry, and a ledger line that carries
\* the escaped original is parsed back by LoadText to the original text
C27_EscapeRoundTrip ==
    /\ pc = "exported" => ThreeLines
    /\ pc = "loaded" /\ ~IsBlankText(OriginalText) => result = <<<<OriginalHash, OriginalText>>>>

\* the three lines are written for every text
ThreeLinesWritten == pc = "exported" => ThreeLines

\* the round trip holds for a text without a backslash that neither starts nor ends
\* with white space
PlainText(t) ==
    /\ t # <<>>
    /\ \A i \in 1..Len(t) : t[i] # 92
    /\ ~IsSpace(t[1]) /\ ~IsSpace(t[Len(t)])

PlainTextRoundTrip ==
    pc = "loaded" /\ PlainText(OriginalText) => result = <<<<OriginalHash, OriginalText>>>>

\* a text with a line break inside is parsed back
LineBreakParsedBack ==
    /\ pc = "loaded"
    /\ OriginalText = <<97, 10, 97>>
    /\ result = <<<<OriginalHash, OriginalText>>>>

(***************************************************************************)
(* C28: the walk of an arena whose child arrays point back                 *)
(***************************************************************************)
\* the nodes of a graph that child edges reach from a set of nodes
RECURSIVE ChildClosure(_, _)
ChildClosure(g, S) ==
    IF \A j \in S : \A i \in 1..Len(g[j][3]) : g[j][3][i] \in S THEN S
    ELSE ChildClosure(g, S \cup UNION {{g[j][3][i] : i \in 1..Len(g[j][3])} : j \in S})

\* the nodes child edges reach from the body
ChildReach(g) == ChildClosure(g, {1})

\* the node of a graph at an offset of its arena
GraphIndex(g, offset) == CHOOSE j \in 1..3 : GraphOffset(g, j) = offset

\* each frame is the frame of a child of the node of the frame below it
FramesFollowChildEdges ==
    \A i \in 1..Len(stack) :
        /\ \E j \in 1..3 : GraphOffset(page, j) = stack[i].node
        /\ i = 1 => stack[i].node = GraphOffset(page, 1)
        /\ i > 1 => \E k \in 1..Len(page[GraphIndex(page, stack[i - 1].node)][3]) :
                        page[GraphIndex(page, stack[i - 1].node)][3][k]
                          = GraphIndex(page, stack[i].node)

\* each text of the container is the text of a node that child edges reach
TextsFromChildEdges ==
    \A i \in 1..Len(container) : \E j \in ChildReach(page) : container[i][2] = page[j][2]

\* a child array of the arena references its own node or an ancestor of it
PointsBack ==
    \E j \in ChildReach(page) :
        /\ page[j][3] # <<>>
        /\ j \in ChildClosure(page, {page[j][3][i] : i \in 1..Len(page[j][3])})

\* C28: on every arena, the arenas whose child arrays reference their own node or
\* an ancestor included, ExtractWhmStrings returns: the walk ends with no frame left
\* and no error passed on, every frame is reached by a child edge from the frame
\* below and every text collected is the text of a node child edges reach, although
\* each parent reference points to a node of its own, and no byte of the arena changes
C28_WalkTerminates ==
    /\ <>(pc = "extracted")
    /\ [](pc = "extracted" => stack = <<>> /\ ~err)
    /\ [](FramesFollowChildEdges /\ TextsFromChildEdges)
    /\ [][block' = block]_vars

\* the walk of an arena that points back has ended on the recursion limit with the
\* texts it had collected, and the node only a parent reference names is not among them
C28_Witness ==
    /\ pc = "extracted"
    /\ PointsBack
    /\ 3 \notin ChildReach(page)
    /\ container # <<>>
    /\ \E i \in 1..Len(stderr) : stderr[i] = "maximum recursion depth exceeded"

(***************************************************************************)
(* C29: the output paths of a batch export                                 *)
(***************************************************************************)
\* those who wrote a file of the folder
WritersOf(name) == {f[2] : f \in {g \in txt_files : g[1] = name}}

\* a task leaves the loop only with a path that does not exist at that moment
ChosenWhenAbsent ==
    \A i \in 1..Len(folder) :
        futures[i] = "while" /\ futures'[i] = "chosen"
            => ~\E f \in txt_files : f[1] = output_txt_path[i]

\* no file that was there before the batch was written by a task
OldFilesKept == \A f \in txt_files : f[2] = 0 => WritersOf(f[1]) = {0}

\* no file was written by two tasks
OneTaskPerPath == \A f \in txt_files : Cardinality(WritersOf(f[1]) \ {0}) <= 1

\* C29: under every interleaving of the threads of the pool each ledger is written
\* to a path that did not exist when it was chosen, no .txt file that was there
\* before is overwritten, and no two input files are written to the same path
C29_OutputPaths ==
    /\ [][ChosenWhenAbsent]_vars
    /\ [](OldFilesKept)
    /\ [](OneTaskPerPath)

\* the part that holds: each path is absent when it is chosen, and the files that
\* were there before the batch stay as they were
ChosenAbsentOldKept == [][ChosenWhenAbsent]_vars /\ [](OldFilesKept)

\* with one thread in the pool no two input files are written to the same path
OneWorkerOneTaskPerPath == max_workers = 1 => OneTaskPerPath

\* two tasks have written the same path
TwoTasksOnePath ==
    \E f \in txt_files : Cardinality(WritersOf(f[1]) \ {0}) = 2

\* a task passed two files and wrote the third candidate
WroteSecondNumbered == \E i \in 1..Len(folder) : futures[i] = "done" /\ counter[i] = 3

(***************************************************************************)
(* C30: the life of a batch job of the WHM tool dialog                     *)
(***************************************************************************)
\* the workers whose run has not returned
RunningWorkers == {w \in 1..Len(workers) : workers[w].at # "ended"}

\* at most one worker is running
OneWorkerAtMost == Cardinality(RunningWorkers) <= 1

\* a click on a run button while a worker runs changes nothing
StartRefusedWhileRunning == (run_export \/ run_gendb) /\ RunningWorkers # {} => UNCHANGED vars

\* each worker that was started comes to emit its finished signal
EachJobFinishes ==
    \A w \in 1..MaxJobs : (Len(workers) >= w) ~> (Len(workers) >= w /\ workers[w].emitted = 1)

\* no worker has emitted its finished signal twice
EmittedOnceAtMost == \A w \in 1..Len(workers) : workers[w].emitted <= 1

\* the handler of the finished signal leaves the streams restored and the controls
\* enabled
RestoredWhenHandled == on_job_finished => sys_streams' = ToOriginal /\ ui_enabled'

\* with every signal handled and no worker running the streams are the original
\* ones and the controls are enabled
RestoredAfterJobs ==
    posted = <<>> /\ RunningWorkers = {} => sys_streams = ToOriginal /\ ui_enabled

\* the open dialog stays open over every step taken while a worker runs
CloseRefusedWhileRunning == visible /\ RunningWorkers # {} => visible'

====
